---------------------------- MODULE Spec2Model ----------------------------
(***************************************************************************)
(* Request validation pipeline of the items API: the Content-Type/charset  *)
(* validator, the pre-parse middleware, the post-route guard and the       *)
(* exception filter, as bootstrapped in main.ts.                           *)
(*                                                                         *)
(* Strings are TLA+ strings; the JavaScript string methods the code uses   *)
(* (trim, toLowerCase, toUpperCase, split, startsWith, includes, replace)  *)
(* are operators over their characters.  An optional value (undefined or   *)
(* a value) is a sequence of length 0 or 1.                                *)
(***************************************************************************)
EXTENDS Integers, Sequences, FiniteSets, TLC

VARIABLES
    method,        \* req.method
    contentType,   \* req.headers['content-type']: [kind, val]
    pc,            \* stage of the request that runs next
    res,           \* the response object: status, body, number of json() calls
    nextCalls,     \* the argument lists of the middleware's calls of next()
    canActivate,   \* what JsonContentTypeGuard.canActivate did: none, true, throw
    exception,     \* the value thrown and not yet caught (None when there is none)
    caught,        \* the value the filter's catch was last called with
    invoked,       \* the stages behind the middleware that have run
    store,         \* the records the repository holds
    clock,         \* the repository's time: the number of saves so far
    issued,        \* the number of identifiers the repository has assigned
    req,           \* per client: the ItemsService call in progress
    removed,       \* the identifiers whose remove has returned its record
    started        \* the number of ItemsService calls started so far

httpVars == <<method, contentType, pc, res, nextCalls, canActivate, exception,
              caught, invoked>>

serviceVars == <<store, clock, issued, req, removed, started>>

vars == <<method, contentType, pc, res, nextCalls, canActivate, exception,
          caught, invoked, store, clock, issued, req, removed, started>>

---------------------------------------------------------------------------
(* Bounds of the model *)

\* parameters (";"-separated segments) after the type part of a header
MaxParams == 2
\* elements of a Content-Type header that arrives as an array
MaxArrayLen == 2
\* ItemsService calls started in one behaviour
MaxRequests == 2
\* clients whose ItemsService calls may interleave
MaxClients == 2

---------------------------------------------------------------------------
(* Optional values *)

None == <<>>
Some(x) == <<x>>

---------------------------------------------------------------------------
(* JavaScript string methods *)

UPPER == "ABCDEFGHIJKLMNOPQRSTUVWXYZ"
LOWER == "abcdefghijklmnopqrstuvwxyz"

CharAt(s, i) == SubSeq(s, i, i)

UpperLetters == {CharAt(UPPER, i) : i \in 1..Len(UPPER)}
LowerLetters == {CharAt(LOWER, i) : i \in 1..Len(LOWER)}

\* each upper-case letter's lower-case letter, and the converse
LowerOf ==
    [c \in UpperLetters |->
        CharAt(LOWER, CHOOSE i \in 1..Len(UPPER) : CharAt(UPPER, i) = c)]
UpperOf ==
    [c \in LowerLetters |->
        CharAt(UPPER, CHOOSE i \in 1..Len(LOWER) : CharAt(LOWER, i) = c)]

LowerChar(c) == IF c \in UpperLetters THEN LowerOf[c] ELSE c

UpperChar(c) == IF c \in LowerLetters THEN UpperOf[c] ELSE c

RECURSIVE ToLowerCase(_)
ToLowerCase(s) ==
    IF s = "" THEN ""
    ELSE IF Len(s) = 1 THEN LowerChar(s)
    ELSE LET h == Len(s) \div 2
         IN  ToLowerCase(SubSeq(s, 1, h)) \o ToLowerCase(SubSeq(s, h + 1, Len(s)))

RECURSIVE ToUpperCase(_)
ToUpperCase(s) ==
    IF s = "" THEN ""
    ELSE IF Len(s) = 1 THEN UpperChar(s)
    ELSE LET h == Len(s) \div 2
         IN  ToUpperCase(SubSeq(s, 1, h)) \o ToUpperCase(SubSeq(s, h + 1, Len(s)))

WhiteSpace == {" ", "\t"}

RECURSIVE TrimStart(_)
TrimStart(s) ==
    IF s # "" /\ Head(s) \in WhiteSpace THEN TrimStart(Tail(s)) ELSE s

RECURSIVE TrimEnd(_)
TrimEnd(s) ==
    IF s # "" /\ CharAt(s, Len(s)) \in WhiteSpace
    THEN TrimEnd(SubSeq(s, 1, Len(s) - 1))
    ELSE s

Trim(s) == TrimEnd(TrimStart(s))

\* index of the first occurrence of the character sep in s, 0 when absent
IndexOf(s, sep) ==
    LET hits == {i \in 1..Len(s) : CharAt(s, i) = sep}
    IN  IF hits = {} THEN 0 ELSE CHOOSE i \in hits : \A j \in hits : i <= j

\* s.split(sep) for a one-character separator
RECURSIVE Split(_, _)
Split(s, sep) ==
    LET i == IndexOf(s, sep)
    IN  IF i = 0
        THEN <<s>>
        ELSE <<SubSeq(s, 1, i - 1)>> \o Split(SubSeq(s, i + 1, Len(s)), sep)

StartsWith(s, p) == Len(s) >= Len(p) /\ SubSeq(s, 1, Len(p)) = p

Includes(s, sub) ==
    \E i \in 1..(Len(s) - Len(sub) + 1) : SubSeq(s, i, i + Len(sub) - 1) = sub

\* s.replace(/^["']|["']$/g, '')
Quotes == {"\"", "'"}

StripQuotes(s) ==
    LET a == IF s # "" /\ Head(s) \in Quotes THEN Tail(s) ELSE s
    IN  IF a # "" /\ CharAt(a, Len(a)) \in Quotes
        THEN SubSeq(a, 1, Len(a) - 1)
        ELSE a

---------------------------------------------------------------------------
(* validate-content-type.ts *)

BAD_REQUEST == 400

BODY_METHODS == {"POST", "PATCH", "PUT"}

CONTENT_TYPE_JSON == "application/json"

SUPPORTED_CHARSETS == {"utf-8", "utf8"}

CONTENT_TYPE_ERROR_BODY ==
    [statusCode |-> BAD_REQUEST,
     error |-> "Bad Request",
     message |-> "Content-Type must be application/json. Send the request body in JSON format."]

CHARSET_ERROR_BODY ==
    [statusCode |-> BAD_REQUEST,
     error |-> "Bad Request",
     message |-> "Unsupported or invalid encoding. Use an encoding that can be decoded (e.g. UTF-8: Content-Type: application/json; charset=utf-8)."]

\* the string the validator reads from the header value: the header when it
\* is a string, String(header[0]) when it is a non-empty array, '' otherwise
HeaderString(h) ==
    IF h.kind = "string" THEN h.val[1]
    ELSE IF h.kind = "array" /\ Len(h.val) > 0 THEN h.val[1]
    ELSE ""

\* contentType.split(';').slice(1).find(p => p.trim().toLowerCase().startsWith('charset='))
FindCharsetPart(ct) ==
    LET parts == Tail(Split(ct, ";"))
        hits  == {i \in 1..Len(parts) :
                    StartsWith(ToLowerCase(Trim(parts[i])), "charset=")}
    IN  IF hits = {} THEN None
        ELSE Some(parts[CHOOSE i \in hits : \A j \in hits : i <= j])

\* faulty variant: the charset is compared without being lower-cased
ExtractCharset_CaseSensitive(charsetPart) ==
    LET pieces     == Split(charsetPart, "=")
        rawCharset == IF Len(pieces) >= 2 THEN pieces[2] ELSE ""
    IN  StripQuotes(Trim(rawCharset))

\* charsetPart.split('=')[1], trimmed, lower-cased, then stripped of quotes
ExtractCharset(charsetPart) ==
    LET pieces     == Split(charsetPart, "=")
        rawCharset == IF Len(pieces) >= 2 THEN pieces[2] ELSE ""
    IN  StripQuotes(ToLowerCase(Trim(rawCharset)))

\* faulty variant: the type part need only begin with application/json
BodyMethodError_PrefixMatch(h) ==
    LET ct         == HeaderString(h)
        normalized == ToLowerCase(Trim(Split(ct, ";")[1]))
        charsetPart == FindCharsetPart(ct)
    IN  IF Trim(ct) = "" THEN Some(CONTENT_TYPE_ERROR_BODY)
        ELSE IF ~StartsWith(normalized, CONTENT_TYPE_JSON)
             THEN Some(CONTENT_TYPE_ERROR_BODY)
        ELSE IF charsetPart # None
                /\ ExtractCharset(charsetPart[1]) # ""
                /\ ExtractCharset(charsetPart[1]) \notin SUPPORTED_CHARSETS
             THEN Some(CHARSET_ERROR_BODY)
        ELSE None

\* the validation of a body-bearing method's header (lines 75-106)
BodyMethodError(h) ==
    LET ct         == HeaderString(h)
        normalized == ToLowerCase(Trim(Split(ct, ";")[1]))
        charsetPart == FindCharsetPart(ct)
    IN  IF Trim(ct) = "" THEN Some(CONTENT_TYPE_ERROR_BODY)
        ELSE IF normalized # CONTENT_TYPE_JSON THEN Some(CONTENT_TYPE_ERROR_BODY)
        ELSE IF charsetPart # None
                /\ ExtractCharset(charsetPart[1]) # ""
                /\ ExtractCharset(charsetPart[1]) \notin SUPPORTED_CHARSETS
             THEN Some(CHARSET_ERROR_BODY)
        ELSE None

\* faulty variant: only GET is exempt from validation
getContentTypeValidationError_GetOnly(m, h) ==
    IF ToUpperCase(m) = "GET" THEN None ELSE BodyMethodError(h)

\* getContentTypeValidationError(req): None for null, Some(body) for an error
getContentTypeValidationError(m, h) ==
    IF ToUpperCase(m) \notin BODY_METHODS THEN None ELSE BodyMethodError(h)

---------------------------------------------------------------------------
(* The requests *)

\* the methods Node's HTTP parser delivers to the application
Methods == {"GET", "DELETE", "POST", "PATCH", "PUT"}

TypeParts ==
    {"", " ", "application/json", " Application/JSON ", "text/plain",
     "application/jsonx"}

Params ==
    {" charset=utf-8", "charset=UTF8 ", " Charset=\"Utf-8\"", "charset=",
     " charset=iso-8859-1", "charset=\" utf-8 \"", "charset=\"\"",
     " boundary=x"}

RECURSIVE ParamTails(_)
ParamTails(n) ==
    IF n = 0 THEN {""}
    ELSE {";" \o p \o t : p \in Params, t \in ParamTails(n - 1)}

HeaderStrings ==
    UNION {{tp \o t : tp \in TypeParts, t \in ParamTails(n)} : n \in 0..MaxParams}

ArrayElements ==
    {"application/json", "text/plain", "application/json; charset=radnom"}

RECURSIVE Arrays(_)
Arrays(n) ==
    IF n = 0 THEN {<<>>}
    ELSE Arrays(n - 1)
         \cup {<<e>> \o a : e \in ArrayElements,
                           a \in {b \in Arrays(n - 1) : Len(b) = n - 1}}

HeaderValues ==
    {[kind |-> "undefined", val |-> <<>>]}
    \cup {[kind |-> "string", val |-> <<s>>] : s \in HeaderStrings}
    \cup {[kind |-> "array", val |-> a] : a \in Arrays(MaxArrayLen)}

---------------------------------------------------------------------------
(* The response object *)

NoBody == [none |-> TRUE]

FreshResponse == [status |-> 0, body |-> NoBody, sends |-> 0]

\* res.status(code).json(body)
Send(r, code, body) == [status |-> code, body |-> body, sends |-> r.sends + 1]

---------------------------------------------------------------------------
(* validate-json-content-type.middleware.ts *)

\* faulty variant: the return after sending the error is missing
validateJsonContentType_FallsThrough ==
    /\ pc = "middleware"
    /\ LET error == getContentTypeValidationError(method, contentType)
       IN  IF error # None
           THEN res' = Send(res, error[1].statusCode, error[1])
           ELSE UNCHANGED res
    /\ nextCalls' = Append(nextCalls, <<>>)
    /\ pc' = "bodyParser"
    /\ UNCHANGED <<method, contentType, canActivate, exception, caught, invoked>>
    /\ UNCHANGED serviceVars

\* faulty variant: the error is handed to next() instead of being sent
validateJsonContentType_NextWithError ==
    /\ pc = "middleware"
    /\ LET error == getContentTypeValidationError(method, contentType)
       IN  IF error # None
           THEN /\ nextCalls' = Append(nextCalls, <<error[1]>>)
                /\ pc' = "done"
           ELSE /\ nextCalls' = Append(nextCalls, <<>>)
                /\ pc' = "bodyParser"
    /\ UNCHANGED <<method, contentType, res, canActivate, exception, caught, invoked>>
    /\ UNCHANGED serviceVars

\* faulty variant: the header is taken off the request once it has passed
validateJsonContentType_ConsumesHeader ==
    /\ pc = "middleware"
    /\ LET error == getContentTypeValidationError(method, contentType)
       IN  IF error # None
           THEN /\ res' = Send(res, error[1].statusCode, error[1])
                /\ pc' = "done"
                /\ UNCHANGED <<nextCalls, contentType>>
           ELSE /\ nextCalls' = Append(nextCalls, <<>>)
                /\ pc' = "bodyParser"
                /\ contentType' = [kind |-> "undefined", val |-> <<>>]
                /\ UNCHANGED res
    /\ UNCHANGED <<method, canActivate, exception, caught, invoked>>
    /\ UNCHANGED serviceVars

validateJsonContentType ==
    /\ pc = "middleware"
    /\ LET error == getContentTypeValidationError(method, contentType)
       IN  IF error # None
           THEN /\ res' = Send(res, error[1].statusCode, error[1])
                /\ pc' = "done"
                /\ UNCHANGED nextCalls
           ELSE /\ nextCalls' = Append(nextCalls, <<>>)
                /\ pc' = "bodyParser"
                /\ UNCHANGED res
    /\ UNCHANGED <<method, contentType, canActivate, exception, caught, invoked>>
    /\ UNCHANGED serviceVars

---------------------------------------------------------------------------
(* Exceptions: the values the filter receives.  class is what instanceof  *)
(* tells apart; message, statusCode and status are optional properties;   *)
(* response is what HttpException.getResponse() returns.                  *)

NOT_FOUND == 404
INTERNAL_SERVER_ERROR == 500

\* new HttpException(response, status), its message already initialised
HttpException(response, status, message) ==
    [class |-> "HttpException", message |-> Some(message), statusCode |-> None,
     status |-> Some(status), response |-> response]

\* new BadRequestException(message)
BadRequestException(message) ==
    HttpException([statusCode |-> BAD_REQUEST, error |-> "Bad Request",
                   message |-> message],
                  BAD_REQUEST, message)

\* new NotFoundException(message)
NotFoundException(message) ==
    HttpException([statusCode |-> NOT_FOUND, error |-> "Not Found",
                   message |-> message],
                  NOT_FOUND, message)

\* a thrown value that is no HttpException
Thrown(class, message, statusCode, status) ==
    [class |-> class, message |-> message, statusCode |-> statusCode,
     status |-> status, response |-> NoBody]

---------------------------------------------------------------------------
(* json-parse-exception.filter.ts *)

JSON_PARSE_ERROR_MESSAGE == "Request body must be valid JSON."

ENCODING_ERROR_MESSAGE ==
    "Request body could not be decoded. Use an encoding that can be decoded (e.g. UTF-8)."

\* typeof exception.message === 'string' ? exception.message : ''
MessageOf(e) == IF e.message # None THEN e.message[1] ELSE ""

\* faulty variant: HttpExceptions are not skipped
isEncodingError_NoHttpSkip(e) ==
    LET lower == ToLowerCase(MessageOf(e))
    IN  \/ Includes(lower, "encoding")
        \/ Includes(lower, "charset")
        \/ Includes(lower, "decode")
        \/ Includes(lower, "invalid utf")
        \/ Includes(lower, "invalid character")
        \/ Includes(lower, "invalid byte")
        \/ (Includes(lower, "utf") /\ Includes(lower, "invalid"))

isEncodingError(e) ==
    IF e.class = "HttpException" THEN FALSE
    ELSE LET lower == ToLowerCase(MessageOf(e))
         IN  \/ Includes(lower, "encoding")
             \/ Includes(lower, "charset")
             \/ Includes(lower, "decode")
             \/ Includes(lower, "invalid utf")
             \/ Includes(lower, "invalid character")
             \/ Includes(lower, "invalid byte")
             \/ (Includes(lower, "utf") /\ Includes(lower, "invalid"))

\* faulty variant: only statusCode is read, status is ignored
isJsonParseError_StatusCodeOnly(e) ==
    IF e.class = "SyntaxError" THEN TRUE
    ELSE IF e.class = "HttpException" THEN FALSE
    ELSE LET lower == ToLowerCase(MessageOf(e))
         IN  IF e.statusCode = Some(BAD_REQUEST)
             THEN \/ Includes(lower, "json")
                  \/ Includes(lower, "unexpected token")
                  \/ Includes(lower, "parse")
             ELSE FALSE

\* faulty variant: HttpExceptions are not skipped
isJsonParseError_NoHttpSkip(e) ==
    IF e.class = "SyntaxError" THEN TRUE
    ELSE LET status == IF e.statusCode # None THEN e.statusCode ELSE e.status
             lower  == ToLowerCase(MessageOf(e))
         IN  IF status = Some(BAD_REQUEST)
             THEN \/ Includes(lower, "json")
                  \/ Includes(lower, "unexpected token")
                  \/ Includes(lower, "parse")
             ELSE FALSE

isJsonParseError(e) ==
    IF e.class = "SyntaxError" THEN TRUE
    ELSE IF e.class = "HttpException" THEN FALSE
    ELSE LET status == IF e.statusCode # None THEN e.statusCode ELSE e.status
             lower  == ToLowerCase(MessageOf(e))
         IN  IF status = Some(BAD_REQUEST)
             THEN \/ Includes(lower, "json")
                  \/ Includes(lower, "unexpected token")
                  \/ Includes(lower, "parse")
             ELSE FALSE

\* faulty variant: the JSON rule is tried before the encoding rule
CatchResponse_JsonFirst(e) ==
    IF isJsonParseError(e)
    THEN [status |-> BAD_REQUEST,
          body |-> [statusCode |-> BAD_REQUEST, error |-> "Bad Request",
                    message |-> JSON_PARSE_ERROR_MESSAGE]]
    ELSE IF isEncodingError(e)
    THEN [status |-> BAD_REQUEST,
          body |-> [statusCode |-> BAD_REQUEST, error |-> "Bad Request",
                    message |-> ENCODING_ERROR_MESSAGE]]
    ELSE IF e.class = "HttpException"
    THEN [status |-> e.status[1], body |-> e.response]
    ELSE [status |-> INTERNAL_SERVER_ERROR,
          body |-> [statusCode |-> INTERNAL_SERVER_ERROR,
                    error |-> "Internal Server Error",
                    message |-> "An unexpected error occurred."]]

\* faulty variant: the fallback reports the exception's own message
CatchResponse_LeaksMessage(e) ==
    IF isEncodingError(e)
    THEN [status |-> BAD_REQUEST,
          body |-> [statusCode |-> BAD_REQUEST, error |-> "Bad Request",
                    message |-> ENCODING_ERROR_MESSAGE]]
    ELSE IF isJsonParseError(e)
    THEN [status |-> BAD_REQUEST,
          body |-> [statusCode |-> BAD_REQUEST, error |-> "Bad Request",
                    message |-> JSON_PARSE_ERROR_MESSAGE]]
    ELSE IF e.class = "HttpException"
    THEN [status |-> e.status[1], body |-> e.response]
    ELSE [status |-> INTERNAL_SERVER_ERROR,
          body |-> [statusCode |-> INTERNAL_SERVER_ERROR,
                    error |-> "Internal Server Error",
                    message |-> MessageOf(e)]]

\* faulty variant: the fallback sends the status the exception carries
CatchResponse_KeepsStatus(e) ==
    IF isEncodingError(e)
    THEN [status |-> BAD_REQUEST,
          body |-> [statusCode |-> BAD_REQUEST, error |-> "Bad Request",
                    message |-> ENCODING_ERROR_MESSAGE]]
    ELSE IF isJsonParseError(e)
    THEN [status |-> BAD_REQUEST,
          body |-> [statusCode |-> BAD_REQUEST, error |-> "Bad Request",
                    message |-> JSON_PARSE_ERROR_MESSAGE]]
    ELSE IF e.class = "HttpException"
    THEN [status |-> e.status[1], body |-> e.response]
    ELSE [status |-> IF e.status # None THEN e.status[1] ELSE INTERNAL_SERVER_ERROR,
          body |-> [statusCode |-> INTERNAL_SERVER_ERROR,
                    error |-> "Internal Server Error",
                    message |-> "An unexpected error occurred."]]

\* JsonParseExceptionFilter.catch: the status and body it sends
CatchResponse(e) ==
    IF isEncodingError(e)
    THEN [status |-> BAD_REQUEST,
          body |-> [statusCode |-> BAD_REQUEST, error |-> "Bad Request",
                    message |-> ENCODING_ERROR_MESSAGE]]
    ELSE IF isJsonParseError(e)
    THEN [status |-> BAD_REQUEST,
          body |-> [statusCode |-> BAD_REQUEST, error |-> "Bad Request",
                    message |-> JSON_PARSE_ERROR_MESSAGE]]
    ELSE IF e.class = "HttpException"
    THEN [status |-> e.status[1], body |-> e.response]
    ELSE [status |-> INTERNAL_SERVER_ERROR,
          body |-> [statusCode |-> INTERNAL_SERVER_ERROR,
                    error |-> "Internal Server Error",
                    message |-> "An unexpected error occurred."]]

\* faulty variant: nothing is sent, the request is given to the handler again
JsonParseExceptionFilter_catch_Retries ==
    /\ pc = "filter"
    /\ exception # None
    /\ caught' = exception
    /\ exception' = None
    /\ pc' = "handler"
    /\ UNCHANGED <<method, contentType, res, nextCalls, canActivate, invoked>>
    /\ UNCHANGED serviceVars

\* reading .message of null or of undefined raises a TypeError: catch does
\* not return for such a thrown value
CatchRaises(e) == e.class \in {"null", "undefined"}

\* what becomes of the response once catch itself has raised: the filter
\* has sent nothing and the platform is left with the request; it sends
\* nothing either, or its own error page
AfterCatchRaises(r) ==
    {r, Send(r, INTERNAL_SERVER_ERROR, [html |-> "Internal Server Error"])}

JsonParseExceptionFilter_catch ==
    /\ pc = "filter"
    /\ exception # None
    /\ IF CatchRaises(exception[1])
       THEN \E r \in AfterCatchRaises(res) : res' = r
       ELSE LET r == CatchResponse(exception[1])
            IN  res' = Send(res, r.status, r.body)
    /\ caught' = exception
    /\ exception' = None
    /\ pc' = "done"
    /\ UNCHANGED <<method, contentType, nextCalls, canActivate, invoked>>
    /\ UNCHANGED serviceVars

---------------------------------------------------------------------------
(* json-content-type.guard.ts *)

JsonContentTypeGuard_canActivate ==
    /\ pc = "guard"
    /\ invoked' = invoked \cup {"guard"}
    /\ LET error == getContentTypeValidationError(method, contentType)
       IN  IF error # None
           THEN /\ exception' = Some(BadRequestException(error[1].message))
                /\ canActivate' = "throw"
                /\ pc' = "filter"
           ELSE /\ canActivate' = "true"
                /\ pc' = "handler"
                /\ UNCHANGED exception
    /\ UNCHANGED <<method, contentType, res, nextCalls, caught>>
    /\ UNCHANGED serviceVars

---------------------------------------------------------------------------
(* main.ts: the stages between the middleware and the guard.  The body    *)
(* parser and the router belong to the framework: the parser either       *)
(* passes the request on or fails with one of its errors.                 *)

\* errors of the JSON body parser: malformed JSON, a charset it cannot
\* decode, a body over the size limit
ParserErrors ==
    {Thrown("SyntaxError", Some("Unexpected token } in JSON at position 1"),
            Some(BAD_REQUEST), Some(BAD_REQUEST)),
     Thrown("Error", Some("unsupported charset \"UTF-16\""), Some(415), Some(415)),
     Thrown("Error", Some("request entity too large"), Some(413), Some(413))}

bodyParser ==
    /\ pc = "bodyParser"
    /\ invoked' = invoked \cup {"bodyParser"}
    /\ \/ /\ pc' = "router"
          /\ UNCHANGED exception
       \/ \E e \in ParserErrors :
             /\ exception' = Some(e)
             /\ pc' = "filter"
    /\ UNCHANGED <<method, contentType, res, nextCalls, canActivate, caught>>
    /\ UNCHANGED serviceVars

---------------------------------------------------------------------------
(* items.controller.ts *)

\* the methods ItemsController declares a route for
RoutedMethods == {"POST", "GET", "PATCH", "DELETE"}

\* the status of a successful response: @HttpCode(HttpStatus.CREATED) on
\* create, 200 on every other route
CREATED == 201
OK == 200
SuccessStatus(m) == IF m = "POST" THEN CREATED ELSE OK

\* the router: a request with no route is answered through the filter
\* with the framework's NotFoundException; the guard runs for routed ones
router ==
    /\ pc = "router"
    /\ IF method \in RoutedMethods
       THEN /\ pc' = "guard"
            /\ UNCHANGED exception
       ELSE /\ exception' = Some(NotFoundException("Cannot " \o method \o " /api/items"))
            /\ pc' = "filter"
    /\ UNCHANGED <<method, contentType, res, nextCalls, canActivate, caught, invoked>>
    /\ UNCHANGED serviceVars

INVALID_DATE_OF_BIRTH_MESSAGE ==
    "Invalid date of birth; use ISO date format (YYYY-MM-DD)."

\* what a handler's call of ItemsService ends in: the record(s) returned,
\* or one of the exceptions the service throws, or a failure of the
\* repository; store tells whether the repository was called
Returned == [threw |-> None, store |-> TRUE]

InvalidName ==
    [threw |-> Some(BadRequestException("name is required and must be a non-empty string")),
     store |-> FALSE]

InvalidDate ==
    [threw |-> Some(BadRequestException(INVALID_DATE_OF_BIRTH_MESSAGE)), store |-> FALSE]

InvalidUuid ==
    [threw |-> Some(BadRequestException("Invalid UUID format")), store |-> FALSE]

ItemNotFound ==
    [threw |-> Some(NotFoundException("Item with id \"00000000-0000-0000-0000-000000000000\" not found")),
     store |-> TRUE]

RepositoryFailure ==
    [threw |-> Some(Thrown("Error", Some("connect ECONNREFUSED 127.0.0.1:5432"), None, None)),
     store |-> TRUE]

\* create for POST; findAll or findOne for GET; update for PATCH; remove
\* for DELETE
ServiceOutcomes(m) ==
    IF m = "POST" THEN {Returned, InvalidName, InvalidDate, RepositoryFailure}
    ELSE IF m = "PATCH"
    THEN {Returned, InvalidUuid, ItemNotFound, InvalidDate, RepositoryFailure}
    ELSE {Returned, InvalidUuid, ItemNotFound, RepositoryFailure}

\* the body of a successful response: what the service returned
ServiceResult == [item |-> TRUE]

\* ItemsController: every handler returns the service's result
handler ==
    /\ pc = "handler"
    /\ \E o \in ServiceOutcomes(method) :
          /\ invoked' = invoked \cup {"handler", "service"}
                                \cup (IF o.store THEN {"store"} ELSE {})
          /\ IF o.threw = None
             THEN /\ res' = Send(res, SuccessStatus(method), ServiceResult)
                  /\ pc' = "done"
                  /\ UNCHANGED exception
             ELSE /\ exception' = o.threw
                  /\ pc' = "filter"
                  /\ UNCHANGED res
    /\ UNCHANGED <<method, contentType, nextCalls, canActivate, caught>>
    /\ UNCHANGED serviceVars

---------------------------------------------------------------------------
(* The exceptions the filter is checked on *)

Messages ==
    {"", "Some other error", "Unexpected token } in JSON at position 1",
     "Invalid JSON in body", "Parse error", "Invalid encoding in request body",
     "Invalid UTF-8 detected in stream", "unsupported charset \"UTF-16\"",
     "Failed to DECODE body", "invalid character in stream",
     "Invalid byte sequence", "utf8 stream is invalid",
     "Unexpected token: invalid encoding of JSON", "invalid thing", "UTF",
     "Custom error", "Invalid UUID format",
     CONTENT_TYPE_ERROR_BODY.message, CHARSET_ERROR_BODY.message}

Statuses == {BAD_REQUEST, NOT_FOUND, 422, INTERNAL_SERVER_ERROR}

\* HttpExceptions: built by Nest from a message, or from a response object
HttpExceptions ==
    {HttpException([statusCode |-> st, error |-> "Error", message |-> m], st, m) :
        st \in Statuses, m \in Messages}
    \cup {HttpException([message |-> m], st, m) : st \in Statuses, m \in Messages}

OtherThrown ==
    {Thrown(c, m, sc, st) :
        c \in {"SyntaxError", "Error", "Object"},
        m \in {None} \cup {Some(x) : x \in Messages},
        sc \in {None, Some(BAD_REQUEST), Some(INTERNAL_SERVER_ERROR)},
        st \in {None, Some(BAD_REQUEST), Some(415)}}

Exceptions == HttpExceptions \cup OtherThrown

\* thrown values that are no objects: null, undefined, a string
PrimitiveThrown ==
    {Thrown(c, None, None, None) : c \in {"null", "undefined", "string"}}

\* everything a throw statement can throw
ThrownValues == Exceptions \cup PrimitiveThrown

---------------------------------------------------------------------------
(* items.service.ts: the values of a request body.  A JavaScript value is *)
(* a record of its typeof and its content.                                *)

Undefined == [t |-> "undefined", v |-> ""]
Str(s) == [t |-> "string", v |-> s]
Num(n) == [t |-> "number", v |-> n]
Null == [t |-> "null", v |-> ""]
Obj == [t |-> "object", v |-> ""]

IsString(x) == x.t = "string"

---------------------------------------------------------------------------
(* items.service.ts: identifiers *)

\* /^[0-9a-f]{8}-[0-9a-f]{4}-[0-9a-f]{4}-[0-9a-f]{4}-[0-9a-f]{12}$/i:
\* the lengths of the groups, and the characters of a group
UUID_REGEX == <<8, 4, 4, 4, 12>>

HexDigits ==
    {"0", "1", "2", "3", "4", "5", "6", "7", "8", "9",
     "a", "b", "c", "d", "e", "f"}

\* the first n characters of s are hexadecimal digits, in either case
HexRun(s, n) ==
    /\ Len(s) >= n
    /\ \A i \in 1..n : LowerChar(CharAt(s, i)) \in HexDigits

\* s is the groups from the k-th on, separated by "-", and nothing more
RECURSIVE MatchesGroups(_, _, _)
MatchesGroups(s, groups, k) ==
    /\ HexRun(s, groups[k])
    /\ LET rest == SubSeq(s, groups[k] + 1, Len(s))
       IN  IF k = Len(groups) THEN rest = ""
           ELSE /\ rest # ""
                /\ Head(rest) = "-"
                /\ MatchesGroups(Tail(rest), groups, k + 1)

\* UUID_REGEX.test(value), for the string value of a route parameter
isValidUuid(value) == MatchesGroups(value, UUID_REGEX, 1)

---------------------------------------------------------------------------
(* items.service.ts: dates.  A Date produced from a date of birth is its  *)
(* UTC calendar date [y, m, d]; NaN and null are None.                    *)

DIGITS == "0123456789"

DigitSet == {CharAt(DIGITS, i) : i \in 1..Len(DIGITS)}

DigitValue == [c \in DigitSet |-> (CHOOSE i \in 1..Len(DIGITS) : CharAt(DIGITS, i) = c) - 1]

AllDigits(s) == \A i \in 1..Len(s) : CharAt(s, i) \in DigitSet

\* the number a string of digits denotes
RECURSIVE ToNumber(_)
ToNumber(s) ==
    IF s = "" THEN 0
    ELSE 10 * ToNumber(SubSeq(s, 1, Len(s) - 1)) + DigitValue[CharAt(s, Len(s))]

\* String(n) and `${n}` for a natural number
RECURSIVE StringOf(_)
StringOf(n) ==
    IF n < 10 THEN CharAt(DIGITS, n + 1)
    ELSE StringOf(n \div 10) \o CharAt(DIGITS, (n % 10) + 1)

\* s.padStart(n, c) for a one-character c
RECURSIVE PadStart(_, _, _)
PadStart(s, n, c) == IF Len(s) >= n THEN s ELSE PadStart(c \o s, n, c)

IsLeapYear(y) == (y % 4 = 0 /\ y % 100 # 0) \/ y % 400 = 0

DaysInMonth(y, m) ==
    IF m = 2 THEN (IF IsLeapYear(y) THEN 29 ELSE 28)
    ELSE IF m \in {4, 6, 9, 11} THEN 30
    ELSE 31

\* the date of day d of month m: a day past the end of the month runs on
\* into the next month (d is at most 31, so December never runs over)
MakeDate(y, m, d) ==
    IF d <= DaysInMonth(y, m) THEN [y |-> y, m |-> m, d |-> d]
    ELSE [y |-> y, m |-> m + 1, d |-> d - DaysInMonth(y, m)]

\* s has the date-only form YYYY-MM-DD of the ISO format, with a month of
\* 01..12 and a day of 01..31
IsIsoDateOnly(s) ==
    /\ Len(s) = 10
    /\ AllDigits(SubSeq(s, 1, 4))
    /\ CharAt(s, 5) = "-"
    /\ AllDigits(SubSeq(s, 6, 7))
    /\ CharAt(s, 8) = "-"
    /\ AllDigits(SubSeq(s, 9, 10))
    /\ ToNumber(SubSeq(s, 6, 7)) \in 1..12
    /\ ToNumber(SubSeq(s, 9, 10)) \in 1..31

\* what Date.parse may make of a string that has not the date-only form:
\* the outcome is left to the implementation and to the time zone of the
\* host, so it is NaN or some date
LegacyDates ==
    {[y |-> 1999, m |-> 12, d |-> 31], [y |-> 1990, m |-> 1, d |-> 15],
     [y |-> 1990, m |-> 1, d |-> 14], [y |-> 1990, m |-> 1, d |-> 5]}

\* Date.parse(s) followed by new Date(parsed): the set of possible outcomes
DateParse(s) ==
    IF IsIsoDateOnly(s)
    THEN {Some(MakeDate(ToNumber(SubSeq(s, 1, 4)), ToNumber(SubSeq(s, 6, 7)),
                        ToNumber(SubSeq(s, 9, 10))))}
    ELSE {None} \cup {Some(d) : d \in LegacyDates}

\* parseDateOfBirth(value): the set of possible results, None for null
parseDateOfBirth(value) ==
    IF ~IsString(value) \/ Trim(value.v) = "" THEN {None}
    ELSE DateParse(Trim(value.v))

formatDateToISODateString(d) ==
    StringOf(d.y) \o "-" \o PadStart(StringOf(d.m), 2, "0")
                  \o "-" \o PadStart(StringOf(d.d), 2, "0")

\* faulty variant: any date that parses is taken, without the round trip
isCalendarDateValid_NoRoundTrip(inputTrimmed, parsed) == TRUE

isCalendarDateValid(inputTrimmed, parsed) ==
    formatDateToISODateString(parsed) = inputTrimmed

isDateOfBirthProvided(value) == IsString(value) /\ Trim(value.v) # ""

---------------------------------------------------------------------------
(* The repository (TypeORM Repository<Item>) behind ItemsService: a store *)
(* of records keyed by id.  An entity not yet saved has no id.            *)

\* the n-th identifier the store assigns
IdOf(n) == "00000000-0000-4000-8000-00000000000" \o StringOf(n)

\* repository.create(fields): an entity with those fields and nothing else
RepositoryCreate(fields) ==
    [id |-> None, name |-> fields.name, description |-> fields.description,
     dateOfBirth |-> fields.dateOfBirth, sex |-> fields.sex,
     phoneNumber |-> fields.phoneNumber, address |-> fields.address,
     createdAt |-> None, updatedAt |-> None]

\* the record repository.save(entity) writes at time now: an entity
\* without id is inserted under the next identifier; one with an id
\* replaces the record of that id, or is inserted under it when the store
\* holds none
Saved(entity, now, nextId) ==
    IF entity.id = None
    THEN [entity EXCEPT !.id = Some(nextId), !.createdAt = Some(now),
                        !.updatedAt = Some(now)]
    ELSE [entity EXCEPT !.updatedAt = Some(now)]

\* faulty variant: a save never replaces, it adds
StoreAfterSave_Appends(st, record) == st \cup {record}

StoreAfterSave(st, record) == {r \in st : r.id # record.id} \cup {record}

\* repository.findOne({ where: { id } }): Some(record), or None for null
RepositoryFindOne(st, id) ==
    IF \E r \in st : r.id = Some(id)
    THEN Some(CHOOSE r \in st : r.id = Some(id))
    ELSE None

\* the store after repository.remove(entity)
StoreAfterRemove(st, entity) == {r \in st : r.id # entity.id}

\* faulty variant: the newest record comes first
RECURSIVE RepositoryFind_Descending(_)
RepositoryFind_Descending(st) ==
    IF st = {} THEN <<>>
    ELSE LET first == CHOOSE r \in st :
                         \A q \in st : r.createdAt[1] >= q.createdAt[1]
         IN  <<first>> \o RepositoryFind_Descending(st \ {first})

\* repository.find({ order: { createdAt: 'ASC' } })
RECURSIVE RepositoryFind(_)
RepositoryFind(st) ==
    IF st = {} THEN <<>>
    ELSE LET first == CHOOSE r \in st :
                         \A q \in st : r.createdAt[1] <= q.createdAt[1]
         IN  <<first>> \o RepositoryFind(st \ {first})

---------------------------------------------------------------------------
(* items.service.ts: ItemsService.  A call in progress is a record: the   *)
(* method called (op), its arguments (id, dto), where it stands (pc:      *)
(* idle, loaded after the awaited findOne of update and remove, done),    *)
(* the item it loaded, what it threw or returned, the repository methods  *)
(* it called, and whether a remove of its id had returned when it began.  *)

\* the keys of a request body: those the DTOs declare, and id and
\* createdAt, which a client may send as well
Dto(name, description, dateOfBirth, sex, phoneNumber, address, id, createdAt) ==
    [name |-> name, description |-> description, dateOfBirth |-> dateOfBirth,
     sex |-> sex, phoneNumber |-> phoneNumber, address |-> address,
     id |-> id, createdAt |-> createdAt]

EmptyDto ==
    Dto(Undefined, Undefined, Undefined, Undefined, Undefined, Undefined,
        Undefined, Undefined)

Idle ==
    [op |-> "none", id |-> "", dto |-> EmptyDto, pc |-> "idle", item |-> None,
     threw |-> None, value |-> None, calls |-> {}, gone |-> FALSE]

\* a call that has ended by throwing e
Threw(r, e, calls) ==
    [r EXCEPT !.pc = "done", !.threw = Some(e), !.calls = r.calls \cup calls]

\* a call that has ended by returning v
Returns(r, v, calls) ==
    [r EXCEPT !.pc = "done", !.value = Some(v), !.calls = r.calls \cup calls]

\* x ?? d
Coalesce(x, d) == IF x = Undefined \/ x = Null THEN d ELSE x

\* faulty variant: the white space is kept
TrimOf_KeepsWhiteSpace(x) == x

\* x.trim() for a string x
TrimOf(x) == Str(Trim(x.v))

\* x.trim() for an x that is no string: a TypeError, since null has no
\* properties and numbers and objects have no trim
TypeErrorOf(x) ==
    Thrown("TypeError",
           Some(IF x = Null THEN "Cannot read properties of null (reading 'trim')"
                ELSE "trim is not a function"),
           None, None)

\* the place in xs of the first value whose trim() raises, 0 when there is
\* none; the values in skipped are not trimmed
FirstUntrimmable(xs, skipped) ==
    LET bad == {i \in 1..Len(xs) : xs[i] \notin skipped /\ ~IsString(xs[i])}
    IN  IF bad = {} THEN 0 ELSE CHOOSE i \in bad : \A j \in bad : i <= j

\* client p starts a call
Begin(p) ==
    /\ req[p].pc = "idle"
    /\ started < MaxRequests
    /\ started' = started + 1

Call(op, id, dto) ==
    [Idle EXCEPT !.op = op, !.id = id, !.dto = dto, !.gone = (id \in removed)]

\* the check create and update make of a date of birth and of what
\* parseDateOfBirth made of it
DateRejected(value, parsed) ==
    /\ isDateOfBirthProvided(value)
    /\ \/ parsed = None
       \/ ~isCalendarDateValid(Trim(value.v), parsed[1])

\* ItemsService.create(dto)
create(p, dto) ==
    /\ Begin(p)
    /\ LET r    == Call("create", "", dto)
           name == dto.name
       IN  IF name = Undefined \/ ~IsString(name) \/ Trim(name.v) = ""
           THEN /\ req' = [req EXCEPT ![p] =
                     Threw(r, BadRequestException("name is required and must be a non-empty string"), {})]
                /\ UNCHANGED <<store, clock, issued>>
           ELSE \E dateOfBirth \in parseDateOfBirth(dto.dateOfBirth) :
                  IF DateRejected(dto.dateOfBirth, dateOfBirth)
                  THEN /\ req' = [req EXCEPT ![p] =
                            Threw(r, BadRequestException(INVALID_DATE_OF_BIRTH_MESSAGE), {})]
                       /\ UNCHANGED <<store, clock, issued>>
                  ELSE IF FirstUntrimmable(<<Coalesce(dto.sex, Str("")),
                                             Coalesce(dto.phoneNumber, Str("")),
                                             Coalesce(dto.address, Str(""))>>, {}) # 0
                  THEN LET trimmed == <<Coalesce(dto.sex, Str("")),
                                        Coalesce(dto.phoneNumber, Str("")),
                                        Coalesce(dto.address, Str(""))>>
                       IN  /\ req' = [req EXCEPT ![p] =
                                 Threw(r, TypeErrorOf(trimmed[FirstUntrimmable(trimmed, {})]), {})]
                           /\ UNCHANGED <<store, clock, issued>>
                  ELSE LET item == RepositoryCreate(
                                      [name |-> TrimOf(name),
                                       description |-> Coalesce(dto.description, Str("")),
                                       dateOfBirth |-> dateOfBirth,
                                       sex |-> TrimOf(Coalesce(dto.sex, Str(""))),
                                       phoneNumber |-> TrimOf(Coalesce(dto.phoneNumber, Str(""))),
                                       address |-> TrimOf(Coalesce(dto.address, Str("")))])
                           record == Saved(item, clock + 1, IdOf(issued + 1))
                       IN  /\ store' = StoreAfterSave(store, record)
                           /\ clock' = clock + 1
                           /\ issued' = issued + 1
                           /\ req' = [req EXCEPT ![p] =
                                 Returns(r, record, {"create", "save"})]
    /\ UNCHANGED removed
    /\ UNCHANGED httpVars

\* ItemsService.findAll()
findAll(p) ==
    /\ Begin(p)
    /\ req' = [req EXCEPT ![p] =
          Returns(Call("findAll", "", EmptyDto), RepositoryFind(store), {"find"})]
    /\ UNCHANGED <<store, clock, issued, removed>>
    /\ UNCHANGED httpVars

\* faulty variant: the repository is queried before the identifier is checked
FindOneIn_QueryFirst(st, id) ==
    LET item == RepositoryFindOne(st, id)
    IN  IF item = None
        THEN [threw |-> Some(NotFoundException(
                           "Item with id \"" \o id \o "\" not found")),
              item |-> None, calls |-> {"findOne"}]
        ELSE IF ~isValidUuid(id)
        THEN [threw |-> Some(BadRequestException("Invalid UUID format")),
              item |-> None, calls |-> {"findOne"}]
        ELSE [threw |-> None, item |-> item, calls |-> {"findOne"}]

\* what findOne(id) ends in on store st: the exception thrown or the item
\* returned, and the repository methods called
FindOneIn(st, id) ==
    IF ~isValidUuid(id)
    THEN [threw |-> Some(BadRequestException("Invalid UUID format")),
          item |-> None, calls |-> {}]
    ELSE LET item == RepositoryFindOne(st, id)
         IN  IF item = None
             THEN [threw |-> Some(NotFoundException(
                                "Item with id \"" \o id \o "\" not found")),
                   item |-> None, calls |-> {"findOne"}]
             ELSE [threw |-> None, item |-> item, calls |-> {"findOne"}]

\* ItemsService.findOne(id)
findOne(p, id) ==
    /\ Begin(p)
    /\ LET r == Call("findOne", id, EmptyDto)
           f == FindOneIn(store, id)
       IN  req' = [req EXCEPT ![p] =
              IF f.threw # None THEN Threw(r, f.threw[1], f.calls)
              ELSE Returns(r, f.item[1], f.calls)]
    /\ UNCHANGED <<store, clock, issued, removed>>
    /\ UNCHANGED httpVars

\* the awaited findOne(id) that update and remove begin with
Load(p, op, id, dto) ==
    /\ Begin(p)
    /\ LET r == Call(op, id, dto)
           f == FindOneIn(store, id)
       IN  req' = [req EXCEPT ![p] =
              IF f.threw # None THEN Threw(r, f.threw[1], f.calls)
              ELSE [r EXCEPT !.pc = "loaded", !.item = f.item, !.calls = f.calls]]
    /\ UNCHANGED <<store, clock, issued, removed>>
    /\ UNCHANGED httpVars

\* ItemsService.update(id, dto) up to the return of findOne
updateLoad(p, id, dto) == Load(p, "update", id, dto)

\* faulty variant: every key of the input is copied, id included
Assigned_TakesId(item, dto, parsed) ==
    [item EXCEPT
        !.id = IF dto.id # Undefined THEN Some(dto.id.v) ELSE @,
        !.name = IF dto.name # Undefined THEN dto.name ELSE @,
        !.description = IF dto.description # Undefined THEN dto.description ELSE @,
        !.dateOfBirth = IF dto.dateOfBirth # Undefined THEN parsed ELSE @,
        !.sex = IF dto.sex # Undefined THEN TrimOf(dto.sex) ELSE @,
        !.phoneNumber = IF dto.phoneNumber # Undefined THEN TrimOf(dto.phoneNumber) ELSE @,
        !.address = IF dto.address # Undefined THEN TrimOf(dto.address) ELSE @]

\* the item after update's assignments; parsed is what parseDateOfBirth
\* made of dto.dateOfBirth
Assigned(item, dto, parsed) ==
    [item EXCEPT
        !.name = IF dto.name # Undefined THEN dto.name ELSE @,
        !.description = IF dto.description # Undefined THEN dto.description ELSE @,
        !.dateOfBirth = IF dto.dateOfBirth # Undefined THEN parsed ELSE @,
        !.sex = IF dto.sex # Undefined THEN TrimOf(dto.sex) ELSE @,
        !.phoneNumber = IF dto.phoneNumber # Undefined THEN TrimOf(dto.phoneNumber) ELSE @,
        !.address = IF dto.address # Undefined THEN TrimOf(dto.address) ELSE @]

\* the item after the assignments update makes before it looks at the date
\* of birth: name and description
AssignedBeforeDate(item, dto) ==
    [item EXCEPT
        !.name = IF dto.name # Undefined THEN dto.name ELSE @,
        !.description = IF dto.description # Undefined THEN dto.description ELSE @]

\* the item when the k-th of sex.trim(), phoneNumber.trim() and
\* address.trim() raises: what precedes it is assigned
AssignedUpTo(item, dto, parsed, k) ==
    [AssignedBeforeDate(item, dto) EXCEPT
        !.dateOfBirth = IF dto.dateOfBirth # Undefined THEN parsed ELSE @,
        !.sex = IF k > 1 /\ dto.sex # Undefined THEN TrimOf(dto.sex) ELSE @,
        !.phoneNumber = IF k > 2 /\ dto.phoneNumber # Undefined
                        THEN TrimOf(dto.phoneNumber) ELSE @]

\* faulty variant: the item is saved as soon as name and description are
\* assigned, before the date of birth is looked at
updateSave_SavesFirst(p) ==
    /\ req[p].pc = "loaded"
    /\ req[p].op = "update"
    /\ LET r   == req[p]
           dto == r.dto
       IN  \E parsed \in parseDateOfBirth(dto.dateOfBirth) :
              IF dto.dateOfBirth # Undefined /\ DateRejected(dto.dateOfBirth, parsed)
              THEN LET record == Saved(AssignedBeforeDate(r.item[1], dto),
                                       clock + 1, IdOf(issued + 1))
                   IN  /\ store' = StoreAfterSave(store, record)
                       /\ clock' = clock + 1
                       /\ req' = [req EXCEPT ![p] =
                             Threw(r, BadRequestException(INVALID_DATE_OF_BIRTH_MESSAGE), {})]
                       /\ UNCHANGED issued
              ELSE LET record == Saved(Assigned(r.item[1], dto, parsed),
                                       clock + 1, IdOf(issued + 1))
                   IN  /\ store' = StoreAfterSave(store, record)
                       /\ clock' = clock + 1
                       /\ req' = [req EXCEPT ![p] = Returns(r, record, {"save"})]
                       /\ UNCHANGED issued
    /\ UNCHANGED <<removed, started>>
    /\ UNCHANGED httpVars

\* ItemsService.update(id, dto) from the return of findOne on; when the
\* date of birth is refused, the item the call holds has the name and the
\* description already assigned
updateSave(p) ==
    /\ req[p].pc = "loaded"
    /\ req[p].op = "update"
    /\ LET r   == req[p]
           dto == r.dto
       IN  \E parsed \in parseDateOfBirth(dto.dateOfBirth) :
              IF dto.dateOfBirth # Undefined /\ DateRejected(dto.dateOfBirth, parsed)
              THEN /\ req' = [req EXCEPT ![p] =
                        [Threw(r, BadRequestException(INVALID_DATE_OF_BIRTH_MESSAGE), {})
                            EXCEPT !.item = Some(AssignedBeforeDate(r.item[1], dto))]]
                   /\ UNCHANGED <<store, clock, issued>>
              ELSE IF FirstUntrimmable(<<dto.sex, dto.phoneNumber, dto.address>>,
                                       {Undefined}) # 0
              THEN LET trimmed == <<dto.sex, dto.phoneNumber, dto.address>>
                       k       == FirstUntrimmable(trimmed, {Undefined})
                   IN  /\ req' = [req EXCEPT ![p] =
                             [Threw(r, TypeErrorOf(trimmed[k]), {})
                                 EXCEPT !.item = Some(AssignedUpTo(r.item[1], dto, parsed, k))]]
                       /\ UNCHANGED <<store, clock, issued>>
              ELSE LET record == Saved(Assigned(r.item[1], dto, parsed),
                                       clock + 1, IdOf(issued + 1))
                   IN  /\ store' = StoreAfterSave(store, record)
                       /\ clock' = clock + 1
                       /\ req' = [req EXCEPT ![p] = Returns(r, record, {"save"})]
                       /\ UNCHANGED issued
    /\ UNCHANGED <<removed, started>>
    /\ UNCHANGED httpVars

\* ItemsService.remove(id) up to the return of findOne
removeLoad(p, id) == Load(p, "remove", id, EmptyDto)

\* faulty variant: the item is returned without being removed
removeRemove_KeepsRecord(p) ==
    /\ req[p].pc = "loaded"
    /\ req[p].op = "remove"
    /\ removed' = removed \cup {req[p].id}
    /\ req' = [req EXCEPT ![p] = Returns(req[p], req[p].item[1], {})]
    /\ UNCHANGED <<store, clock, issued, started>>
    /\ UNCHANGED httpVars

\* ItemsService.remove(id) from the return of findOne on
removeRemove(p) ==
    /\ req[p].pc = "loaded"
    /\ req[p].op = "remove"
    /\ store' = StoreAfterRemove(store, req[p].item[1])
    /\ removed' = removed \cup {req[p].id}
    /\ req' = [req EXCEPT ![p] = Returns(req[p], req[p].item[1], {"remove"})]
    /\ UNCHANGED <<clock, issued, started>>
    /\ UNCHANGED httpVars

\* the handler has returned what the service returned or thrown what it
\* threw: the client may send its next request
respond(p) ==
    /\ req[p].pc = "done"
    /\ req' = [req EXCEPT ![p] = Idle]
    /\ UNCHANGED <<store, clock, issued, removed, started>>
    /\ UNCHANGED httpVars

---------------------------------------------------------------------------
(* The service's state at start, and the arguments its calls are made with *)

Clients == 1..MaxClients

ServiceInit ==
    /\ store = {}
    /\ clock = 0
    /\ issued = 0
    /\ req = [p \in Clients |-> Idle]
    /\ removed = {}
    /\ started = 0

\* route parameters: identifiers the store assigns, a well-formed one it
\* never assigns, and malformed ones
PathIds ==
    {IdOf(1), IdOf(2), "ABCDEFAB-cdef-4ABC-8DEF-abcdefABCDEF",
     "", "not-a-uuid", "00000000-0000-4000-8000-00000000000g",
     "00000000-0000-4000-8000-0000000000011",
     "00000000-0000-4000-8000-00000000001",
     "00000000000004000-8000-000000000001",
     " 00000000-0000-4000-8000-000000000001"}

\* dateOfBirth strings
DateStrings ==
    {"1990-01-15", " 1990-01-15 ", "1989-11-31", "2025-02-30", "2024-02-29",
     "2023-02-29", "1900-02-29", "2000-02-29", "0999-12-31", "31/12/1999",
     "1990-01-15T10:00:00Z", "not-a-date", "1990-1-5", "1990-13-01",
     "1990-01-32", "1990-04-31", "", "   "}

NameOnly(name) ==
    [EmptyDto EXCEPT !.name = name]

\* a body with every declared key, and id and createdAt besides
FullDto ==
    Dto(Str("  Trimmed Name  "), Str(" Desc "), Str("1990-05-15"), Str(" F "),
        Str(" 555 0100 "), Str(" 1 Main St "), Str(IdOf(9)),
        Str("2000-01-01T00:00:00.000Z"))

CreateDtos ==
    {NameOnly(n) : n \in {Undefined, Num(42), Str(""), Str("   "), Str("New")}}
    \cup {[NameOnly(Str("New")) EXCEPT !.dateOfBirth = Str(d)] : d \in DateStrings}
    \cup {FullDto,
          [FullDto EXCEPT !.name = Str(" ")],
          [FullDto EXCEPT !.dateOfBirth = Str("1989-11-31")],
          [NameOnly(Undefined) EXCEPT !.dateOfBirth = Str("not-a-date")],
          [NameOnly(Str("New")) EXCEPT !.sex = Num(42)],
          [NameOnly(Str("New")) EXCEPT !.phoneNumber = Null, !.description = Null],
          [NameOnly(Str("New")) EXCEPT !.address = Obj],
          [NameOnly(Str("New")) EXCEPT !.description = Num(7)]}

UpdateDtos ==
    {EmptyDto, NameOnly(Str("Renamed")), NameOnly(Str("   ")), NameOnly(Str("")),
     [EmptyDto EXCEPT !.description = Str("")],
     [EmptyDto EXCEPT !.sex = Str(" M ")],
     [EmptyDto EXCEPT !.phoneNumber = Str(""), !.address = Str(" 2 Side St ")],
     [EmptyDto EXCEPT !.id = Str(IdOf(2)), !.createdAt = Str("2000-01-01T00:00:00.000Z"),
                      !.name = Str("Renamed")],
     [NameOnly(Str("Renamed")) EXCEPT !.description = Str("changed"),
                                      !.dateOfBirth = Str("2025-02-30")],
     [EmptyDto EXCEPT !.sex = Null],
     [EmptyDto EXCEPT !.description = Obj],
     [NameOnly(Str("Renamed")) EXCEPT !.sex = Str(" M "), !.phoneNumber = Num(5550100)],
     [EmptyDto EXCEPT !.address = Num(1), !.dateOfBirth = Str("not-a-date")]}
    \cup {[EmptyDto EXCEPT !.dateOfBirth = Str(d)] : d \in DateStrings}

\* the record a store holds after create(FullDto) on an empty store
SeedRecord ==
    [id |-> Some(IdOf(1)), name |-> Str("Trimmed Name"), description |-> Str(" Desc "),
     dateOfBirth |-> Some([y |-> 1990, m |-> 5, d |-> 15]), sex |-> Str("F"),
     phoneNumber |-> Str("555 0100"), address |-> Str("1 Main St"),
     createdAt |-> Some(1), updatedAt |-> Some(1)]

---------------------------------------------------------------------------
(* The application: one request through the stages main.ts registers *)

Init ==
    /\ method \in Methods
    /\ contentType \in HeaderValues
    /\ pc = "middleware"
    /\ res = FreshResponse
    /\ nextCalls = <<>>
    /\ canActivate = "none"
    /\ exception = None
    /\ caught = None
    /\ invoked = {}
    /\ ServiceInit

Next ==
    \/ validateJsonContentType
    \/ bodyParser
    \/ router
    \/ JsonContentTypeGuard_canActivate
    \/ handler
    \/ JsonParseExceptionFilter_catch

Spec == Init /\ [][Next]_vars

\* Content-Type headers of each kind: none, accepted ones, refused ones
LiveHeaderValues ==
    {[kind |-> "undefined", val |-> <<>>],
     [kind |-> "string", val |-> <<"application/json">>],
     [kind |-> "string", val |-> <<"application/json; charset=utf-8">>],
     [kind |-> "string", val |-> <<"application/json; charset=iso-8859-1">>],
     [kind |-> "string", val |-> <<"text/plain">>],
     [kind |-> "string", val |-> <<"">>],
     [kind |-> "array", val |-> <<>>],
     [kind |-> "array", val |-> <<"application/json", "text/plain">>]}

InitLive ==
    /\ method \in Methods
    /\ contentType \in LiveHeaderValues
    /\ pc = "middleware"
    /\ res = FreshResponse
    /\ nextCalls = <<>>
    /\ canActivate = "none"
    /\ exception = None
    /\ caught = None
    /\ invoked = {}
    /\ ServiceInit

\* the stage the request is at returns and the request moves on
StageReturns ==
    /\ pc # "done"
    /\ pc' \in {"bodyParser", "router", "guard", "handler", "filter", "done"}
    /\ pc' # pc

\* one request through the stages, every stage returning: Node runs a
\* callback that is due, and the handler's awaited calls settle
SpecLive == InitLive /\ [][Next]_vars /\ WF_pc(StageReturns)

---------------------------------------------------------------------------
(* The guard and the filter on their own: the guard called on any         *)
(* request, the filter called with any exception                          *)

InitBoundary ==
    /\ ServiceInit
    /\ res = FreshResponse
    /\ nextCalls = <<>>
    /\ canActivate = "none"
    /\ caught = None
    /\ invoked = {}
    /\ \/ /\ pc = "guard"
          /\ method \in Methods
          /\ contentType \in HeaderValues
          /\ exception = None
       \/ /\ pc = "filter"
          /\ method = "POST"
          /\ contentType = [kind |-> "string", val |-> <<CONTENT_TYPE_JSON>>]
          /\ exception \in {Some(e) : e \in Exceptions}

NextBoundary ==
    \/ JsonContentTypeGuard_canActivate
    \/ JsonParseExceptionFilter_catch

SpecBoundary == InitBoundary /\ [][NextBoundary]_vars

---------------------------------------------------------------------------
(* The filter called with any thrown value *)

InitThrown ==
    /\ ServiceInit
    /\ method = "POST"
    /\ contentType = [kind |-> "string", val |-> <<CONTENT_TYPE_JSON>>]
    /\ pc = "filter"
    /\ res = FreshResponse
    /\ nextCalls = <<>>
    /\ canActivate = "none"
    /\ caught = None
    /\ invoked = {}
    /\ exception \in {Some(e) : e \in ThrownValues}

NextThrown == JsonParseExceptionFilter_catch

SpecThrown == InitThrown /\ [][NextThrown]_vars

---------------------------------------------------------------------------
(* ItemsService called by one client, one call after the other, on a      *)
(* store that is empty or holds the record of an earlier create           *)

HttpIdle ==
    /\ method = "GET"
    /\ contentType = [kind |-> "undefined", val |-> <<>>]
    /\ pc = "service"
    /\ res = FreshResponse
    /\ nextCalls = <<>>
    /\ canActivate = "none"
    /\ exception = None
    /\ caught = None
    /\ invoked = {}

InitService ==
    /\ HttpIdle
    /\ req = [p \in Clients |-> Idle]
    /\ removed = {}
    /\ started = 0
    /\ \/ store = {} /\ clock = 0 /\ issued = 0
       \/ store = {SeedRecord} /\ clock = 1 /\ issued = 1

NextService ==
    \E p \in {1} :
        \/ \E dto \in CreateDtos : create(p, dto)
        \/ findAll(p)
        \/ \E id \in PathIds : findOne(p, id)
        \/ \E id \in PathIds, dto \in UpdateDtos : updateLoad(p, id, dto)
        \/ updateSave(p)
        \/ \E id \in PathIds : removeLoad(p, id)
        \/ removeRemove(p)
        \/ respond(p)

SpecService == InitService /\ [][NextService]_vars

---------------------------------------------------------------------------
(* ItemsService called by several clients whose calls interleave at the   *)
(* awaited repository calls                                               *)

ConcurrentIds == {IdOf(1), IdOf(2)}

ConcurrentCreateDtos == {NameOnly(Str("New"))}

ConcurrentUpdateDtos ==
    {NameOnly(Str("Renamed")), [EmptyDto EXCEPT !.description = Str("changed")]}

NextConcurrent ==
    \E p \in Clients :
        \/ \E dto \in ConcurrentCreateDtos : create(p, dto)
        \/ findAll(p)
        \/ \E id \in ConcurrentIds : findOne(p, id)
        \/ \E id \in ConcurrentIds, dto \in ConcurrentUpdateDtos : updateLoad(p, id, dto)
        \/ updateSave(p)
        \/ \E id \in ConcurrentIds : removeLoad(p, id)
        \/ removeRemove(p)
        \/ respond(p)

SpecConcurrent == InitService /\ [][NextConcurrent]_vars

---------------------------------------------------------------------------
(* Vocabulary of the properties, stated on the characters of the strings  *)
(* and not through the operators that model the code                      *)

\* the same letter, whatever its case
SameLetter(c, d) ==
    \/ c = d
    \/ (c \in UpperLetters /\ d = LowerOf[c])
    \/ (d \in UpperLetters /\ c = LowerOf[d])

EqualsIgnoreCase(x, y) ==
    /\ Len(x) = Len(y)
    /\ \A i \in 1..Len(x) : SameLetter(CharAt(x, i), CharAt(y, i))

ContainsIgnoreCase(s, w) ==
    \E i \in 1..(Len(s) - Len(w) + 1) :
        EqualsIgnoreCase(SubSeq(s, i, i + Len(w) - 1), w)

IsBlank(s) == \A i \in 1..Len(s) : CharAt(s, i) \in WhiteSpace

\* the number of white space characters s begins with
LeadingBlanks(s) ==
    CHOOSE a \in 0..Len(s) :
        /\ IsBlank(SubSeq(s, 1, a))
        /\ (a = Len(s) \/ CharAt(s, a + 1) \notin WhiteSpace)

\* the number of white space characters s ends with
TrailingBlanks(s) ==
    CHOOSE b \in 0..Len(s) :
        /\ IsBlank(SubSeq(s, Len(s) - b + 1, Len(s)))
        /\ (b = Len(s) \/ CharAt(s, Len(s) - b) \notin WhiteSpace)

\* s without the white space around it
Unpadded(s) ==
    IF IsBlank(s) THEN ""
    ELSE SubSeq(s, LeadingBlanks(s) + 1, Len(s) - TrailingBlanks(s))

\* the part of s before its first ";"
FirstSegment(s) ==
    LET k == CHOOSE n \in 0..Len(s) :
                 /\ \A i \in 1..n : CharAt(s, i) # ";"
                 /\ (n = Len(s) \/ CharAt(s, n + 1) = ";")
    IN  SubSeq(s, 1, k)

\* the type part is application/json: padded, in any letter case
IsJsonTypePart(seg) == EqualsIgnoreCase(Unpadded(seg), "application/json")

\* the header as a request carries it: absent, or its text
HeaderText(h) ==
    IF h.kind = "string" THEN Some(h.val[1])
    ELSE IF h.kind = "array" /\ h.val # <<>> THEN Some(Head(h.val))
    ELSE None

HasJsonType(h) ==
    /\ HeaderText(h) # None
    /\ IsJsonTypePart(FirstSegment(HeaderText(h)[1]))

ValidationError == getContentTypeValidationError(method, contentType)

---------------------------------------------------------------------------
(* C1: a POST, PATCH or PUT request that the content-type validator       *)
(* rejects is answered by the middleware, with status 400 and the         *)
(* validator's error as body, and no later stage ever runs for it: not    *)
(* the body parser, not the guard, not the handler, the service or the    *)
(* store.                                                                 *)
C1_RejectedBeforeParsing ==
    LET error == ValidationError
    IN  (method \in BODY_METHODS /\ error # None) =>
            /\ invoked = {}
            /\ canActivate = "none"
            /\ pc \in {"middleware", "done"}
            /\ pc = "done" =>
                  /\ res.status = 400
                  /\ res.body = error[1]
                  /\ res.sends = 1

\* POST with application/json; charset=iso-8859-1 was answered 400 with
\* the charset error and nothing behind the middleware ran
C1_Witness ==
    /\ method = "POST"
    /\ contentType = [kind |-> "string", val |-> <<"application/json; charset=iso-8859-1">>]
    /\ pc = "done"
    /\ res.status = 400
    /\ res.body = CHARSET_ERROR_BODY
    /\ invoked = {}

---------------------------------------------------------------------------
(* C2: for POST, PATCH and PUT the validator returns the Content-Type     *)
(* error whenever the header is absent, blank, an empty array, or its     *)
(* first ";"-separated segment, trimmed and in any letter case, is not    *)
(* application/json; of a header that is an array only the first element  *)
(* counts.                                                                *)
C2_ContentTypeError ==
    LET error == ValidationError
    IN  method \in BODY_METHODS =>
            /\ ~HasJsonType(contentType) => error = Some(CONTENT_TYPE_ERROR_BODY)
            /\ (contentType.kind = "array" /\ contentType.val # <<>>) =>
                  error = getContentTypeValidationError(
                             method,
                             [kind |-> "string", val |-> <<Head(contentType.val)>>])

\* the guard rejected a PATCH with the array header
\* [text/plain, application/json] with the Content-Type error's message
C2_Witness ==
    /\ method = "PATCH"
    /\ contentType = [kind |-> "array", val |-> <<"text/plain", "application/json">>]
    /\ canActivate = "throw"
    /\ exception = Some(BadRequestException(CONTENT_TYPE_ERROR_BODY.message))

---------------------------------------------------------------------------
(* C3: for POST, PATCH and PUT with type part application/json: with no   *)
(* charset parameter, with an empty charset value, or with charset utf-8  *)
(* or utf8 in any letter case the validator returns no error; with any    *)
(* other non-empty charset value it returns the charset error.  The       *)
(* charset error is returned only when the type part is application/json. *)
(* The charset parameter is the first segment after the type part that,   *)
(* trimmed, begins with "charset=" in any letter case; its value is a     *)
(* token, bare or between a pair of quotes, with white space around it    *)
(* ignored.                                                               *)

\* the segments after the type part that are charset parameters
CharsetSegments(text) ==
    LET segs == Split(text, ";")
    IN  {i \in 2..Len(segs) :
            LET a == LeadingBlanks(segs[i])
            IN  /\ a + 8 <= Len(segs[i])
                /\ EqualsIgnoreCase(SubSeq(segs[i], a + 1, a + 8), "charset=")}

\* the text after the "=" of the first charset parameter, white space around
\* it dropped
RawCharset(text) ==
    LET segs == Split(text, ";")
        i    == CHOOSE k \in CharsetSegments(text) :
                    \A j \in CharsetSegments(text) : k <= j
        eq   == LeadingBlanks(segs[i]) + 8
    IN  Unpadded(SubSeq(segs[i], eq + 1, Len(segs[i])))

IsToken(v) ==
    \A i \in 1..Len(v) : CharAt(v, i) \notin (WhiteSpace \cup Quotes \cup {"="})

\* the charset value of a raw parameter text: Some(token), or None when the
\* text is no token, bare or quoted
CharsetValue(raw) ==
    IF IsToken(raw) THEN Some(raw)
    ELSE IF /\ Len(raw) >= 2
            /\ Head(raw) \in Quotes
            /\ CharAt(raw, Len(raw)) \in Quotes
            /\ IsToken(SubSeq(raw, 2, Len(raw) - 1))
         THEN Some(SubSeq(raw, 2, Len(raw) - 1))
         ELSE None

IsUtf8(v) == EqualsIgnoreCase(v, "utf-8") \/ EqualsIgnoreCase(v, "utf8")

C3_Charset ==
    LET error == ValidationError
    IN  method \in BODY_METHODS =>
            /\ error = Some(CHARSET_ERROR_BODY) => HasJsonType(contentType)
            /\ HasJsonType(contentType) =>
                  LET text == HeaderText(contentType)[1]
                  IN  IF CharsetSegments(text) = {}
                      THEN error = None
                      ELSE LET v == CharsetValue(RawCharset(text))
                           IN  v # None =>
                                  IF v[1] = "" \/ IsUtf8(v[1])
                                  THEN error = None
                                  ELSE error = Some(CHARSET_ERROR_BODY)

\* the guard rejected a PATCH with
\* " Application/JSON ; boundary=x; charset=iso-8859-1" with the charset
\* error's message
C3_Witness ==
    /\ method = "PATCH"
    /\ contentType = [kind |-> "string",
                      val |-> <<" Application/JSON ; boundary=x; charset=iso-8859-1">>]
    /\ canActivate = "throw"
    /\ exception = Some(BadRequestException(CHARSET_ERROR_BODY.message))

---------------------------------------------------------------------------
(* C4: for every method other than POST, PATCH and PUT the validator      *)
(* returns no error whatever the Content-Type header is, the middleware   *)
(* calls next() and the guard returns true.                               *)
C4_OtherMethodsPass ==
    method \notin BODY_METHODS =>
        /\ ValidationError = None
        /\ pc # "middleware" => nextCalls = <<<<>>>>
        /\ canActivate # "throw"
        /\ pc = "handler" => canActivate = "true"
        /\ (exception # None /\ "guard" \in invoked) => "handler" \in invoked

\* DELETE with text/plain; charset=iso-8859-1 passed the middleware and the
\* guard
C4_Witness ==
    /\ method = "DELETE"
    /\ contentType = [kind |-> "string", val |-> <<"text/plain; charset=iso-8859-1">>]
    /\ nextCalls = <<<<>>>>
    /\ canActivate = "true"
    /\ pc = "handler"

---------------------------------------------------------------------------
(* C5: the middleware does one of two things with a request.  When the    *)
(* validator returns an error it sends that error as the body, with the   *)
(* error's status code, and never calls next(); when the validator        *)
(* returns no error it calls next() once, with no argument, and writes    *)
(* neither a status nor a body.                                           *)
C5_MiddlewareEitherOr ==
    LET error == ValidationError
    IN  pc # "middleware" =>
            IF error # None
            THEN /\ nextCalls = <<>>
                 /\ res = [status |-> error[1].statusCode, body |-> error[1],
                           sends |-> 1]
            ELSE /\ nextCalls = <<<<>>>>
                 /\ pc = "bodyParser" => res = FreshResponse

\* PUT with application/json; charset=utf-8 was passed on by the middleware,
\* which wrote nothing
C5_Witness ==
    /\ method = "PUT"
    /\ contentType = [kind |-> "string", val |-> <<"application/json; charset=utf-8">>]
    /\ pc = "bodyParser"
    /\ nextCalls = <<<<>>>>
    /\ res = FreshResponse

---------------------------------------------------------------------------
(* The filter's rules as the properties speak of them *)

\* the exception carries a structured HTTP status and response body
IsStructuredHttp(e) == e.class = "HttpException"

HasMessage(e) == e.message # None

MentionsEncoding(m) ==
    \/ \E w \in {"encoding", "charset", "decode", "invalid utf",
                 "invalid character", "invalid byte"} : ContainsIgnoreCase(m, w)
    \/ (ContainsIgnoreCase(m, "utf") /\ ContainsIgnoreCase(m, "invalid"))

MentionsJson(m) ==
    \E w \in {"json", "unexpected token", "parse"} : ContainsIgnoreCase(m, w)

\* rule 1, skipped for structured HTTP exceptions
EncodingRule(e) ==
    /\ ~IsStructuredHttp(e)
    /\ HasMessage(e)
    /\ MentionsEncoding(e.message[1])

\* the status the filter reads: statusCode, or status when there is none
EffectiveStatus(e) == IF e.statusCode # None THEN e.statusCode ELSE e.status

\* rule 2, which leaves structured HTTP exceptions to rule 3
JsonRule(e) ==
    \/ e.class = "SyntaxError"
    \/ /\ ~IsStructuredHttp(e)
       /\ EffectiveStatus(e) = Some(400)
       /\ HasMessage(e)
       /\ MentionsJson(e.message[1])

EncodingResponse ==
    [status |-> 400,
     body |-> [statusCode |-> 400, error |-> "Bad Request",
               message |-> "Request body could not be decoded. Use an encoding that can be decoded (e.g. UTF-8)."],
     sends |-> 1]

JsonResponse ==
    [status |-> 400,
     body |-> [statusCode |-> 400, error |-> "Bad Request",
               message |-> "Request body must be valid JSON."],
     sends |-> 1]

FallbackResponse ==
    [status |-> 500,
     body |-> [statusCode |-> 500, error |-> "Internal Server Error",
               message |-> "An unexpected error occurred."],
     sends |-> 1]

\* the filter has answered for the exception it caught
Answered == pc = "done" /\ caught # None

---------------------------------------------------------------------------
(* C6: when the guard rejects a request, the exception it throws is       *)
(* matched by neither the encoding rule nor the JSON rule of the filter,  *)
(* and the client receives status 400 with the validator's own message    *)
(* (the Content-Type message or the charset message), never "could not    *)
(* be decoded" or "must be valid JSON".                                   *)
C6_GuardRejectionKeepsMessage ==
    canActivate = "throw" =>
        LET error == ValidationError
        IN  /\ error # None
            /\ pc \in {"filter", "done"}
            /\ pc = "filter" =>
                  /\ exception # None
                  /\ IsStructuredHttp(exception[1])
                  /\ exception[1].message = Some(error[1].message)
            /\ pc = "done" =>
                  /\ res.status = 400
                  /\ res.sends = 1
                  /\ res.body.message = error[1].message
                  /\ res.body.message \in {CONTENT_TYPE_ERROR_BODY.message,
                                           CHARSET_ERROR_BODY.message}
                  /\ res.body.message # EncodingResponse.body.message
                  /\ res.body.message # JsonResponse.body.message

\* the guard rejected a request for its charset and the client got 400 with
\* the charset message, which mentions "encoding", "invalid" and "UTF-8"
C6_Witness ==
    /\ canActivate = "throw"
    /\ pc = "done"
    /\ res.status = 400
    /\ res.body.message = CHARSET_ERROR_BODY.message
    /\ MentionsEncoding(res.body.message)
    /\ MentionsJson(res.body.message)

---------------------------------------------------------------------------
(* C7: every exception that is no structured HTTP exception and whose     *)
(* message contains, in any letter case, "encoding", "charset", "decode", *)
(* "invalid utf", "invalid character", "invalid byte", or both "utf" and  *)
(* "invalid", is answered 400 with "Request body could not be decoded.    *)
(* Use an encoding that can be decoded (e.g. UTF-8)."; the rule is tried  *)
(* first, so a syntax error with such a message gets this answer too.     *)
C7_EncodingRuleFirst ==
    Answered => (EncodingRule(caught[1]) => res = EncodingResponse)

\* a SyntaxError whose message mentions an encoding got the encoding answer
C7_Witness ==
    /\ Answered
    /\ caught[1].class = "SyntaxError"
    /\ caught[1].message = Some("Unexpected token: invalid encoding of JSON")
    /\ res = EncodingResponse

---------------------------------------------------------------------------
(* C8, as claimed: every exception not matched by the encoding rule that  *)
(* is a syntax error, or that carries status 400 (as statusCode or as     *)
(* status) and a message mentioning "json", "unexpected token" or         *)
(* "parse", is answered 400 with "Request body must be valid JSON.".      *)
C8_AsClaimed ==
    Answered =>
        LET e == caught[1]
        IN  ( /\ ~EncodingRule(e)
              /\ \/ e.class = "SyntaxError"
                 \/ /\ (e.statusCode = Some(400) \/ e.status = Some(400))
                    /\ HasMessage(e)
                    /\ MentionsJson(e.message[1]) )
            => res = JsonResponse

(* C8, amended: every exception not matched by the encoding rule that is  *)
(* a syntax error, or that is no structured HTTP exception, has a message *)
(* mentioning "json", "unexpected token" or "parse", and has status 400   *)
(* (its statusCode, or its status when it has no statusCode), is answered *)
(* 400 with {statusCode: 400, error: "Bad Request", message: "Request     *)
(* body must be valid JSON."}.                                            *)
C8_JsonRule ==
    Answered =>
        LET e == caught[1]
        IN  (~EncodingRule(e) /\ JsonRule(e)) => res = JsonResponse

\* a plain object with statusCode 400 and message "Invalid JSON in body" got
\* the JSON answer
C8_Witness ==
    /\ Answered
    /\ caught[1].class = "Object"
    /\ caught[1].statusCode = Some(400)
    /\ caught[1].message = Some("Invalid JSON in body")
    /\ res = JsonResponse

---------------------------------------------------------------------------
(* C9: every structured HTTP exception is answered with exactly its own   *)
(* status and its own response body, whatever the status and whatever     *)
(* its message says; neither the encoding rule nor the JSON rule rewrites *)
(* it.                                                                    *)
C9_HttpExceptionForwarded ==
    Answered =>
        LET e == caught[1]
        IN  IsStructuredHttp(e) =>
               res = [status |-> e.status[1], body |-> e.response, sends |-> 1]

\* an HttpException with status 422 whose message mentions invalid UTF-8 and
\* JSON words was forwarded as it was
C9_Witness ==
    /\ Answered
    /\ IsStructuredHttp(caught[1])
    /\ caught[1].status = Some(422)
    /\ caught[1].message = Some("Unexpected token: invalid encoding of JSON")
    /\ res.status = 422
    /\ res.body = [message |-> "Unexpected token: invalid encoding of JSON"]

---------------------------------------------------------------------------
---------------------------------------------------------------------------
(* Vocabulary of the properties of ItemsService *)

\* the calls that have begun
Calls == {req[p] : p \in {q \in Clients : req[q].pc # "idle"}}

Ended(r) == r.pc = "done"

\* the response a client gets to a call that has ended: what the filter
\* makes of the exception, or a success with the value returned
Failed(r) == Ended(r) /\ r.threw # None

Succeeded(r) == Ended(r) /\ r.threw = None

StatusOf(r) == CatchResponse(r.threw[1]).status

MessageSent(r) == CatchResponse(r.threw[1]).body.message

FailedWith(r, status, message) ==
    /\ Failed(r)
    /\ StatusOf(r) = status
    /\ MessageSent(r) = message

\* s is 8-4-4-4-12 hexadecimal digits in either case, joined by "-"
WellFormedId(s) ==
    /\ Len(s) = 36
    /\ \A i \in 1..36 :
          IF i \in {9, 14, 19, 24} THEN CharAt(s, i) = "-"
          ELSE \E k \in 1..22 : CharAt(s, i) = CharAt("0123456789abcdefABCDEF", k)

ById == {"findOne", "update", "remove"}

---------------------------------------------------------------------------
(* C11, as claimed: an identifier is accepted (the call goes on to query  *)
(* the repository) iff it is 8-4-4-4-12 hexadecimal digits in either      *)
(* case, and validating it again gives the same answer; for every other   *)
(* identifier, the empty one included,                                    *)
(* findOne, update and remove fail with status 400 and message "Invalid   *)
(* UUID format." and call no repository method.                           *)
C11_AsClaimed ==
    \A r \in Calls :
        r.op \in ById =>
            /\ isValidUuid(r.id) = WellFormedId(r.id)
            /\ isValidUuid(r.id) = isValidUuid(r.id)
            /\ WellFormedId(r.id) => "findOne" \in r.calls
            /\ ~WellFormedId(r.id) =>
                  /\ FailedWith(r, 400, "Invalid UUID format.")
                  /\ r.calls = {}

(* C11, but for the text of the message: the same, with the message the   *)
(* code sends, "Invalid UUID format" without a full stop.                 *)
C11_UpToMessageText ==
    \A r \in Calls :
        r.op \in ById =>
            /\ isValidUuid(r.id) = WellFormedId(r.id)
            /\ WellFormedId(r.id) => "findOne" \in r.calls
            /\ ~WellFormedId(r.id) =>
                  /\ FailedWith(r, 400, "Invalid UUID format")
                  /\ r.calls = {}

\* an update with the empty identifier has failed with 400 without a call
\* of the repository
C11_Witness ==
    \E r \in Calls :
        /\ r.op = "update"
        /\ r.id = ""
        /\ Failed(r)
        /\ StatusOf(r) = 400
        /\ r.calls = {}

---------------------------------------------------------------------------
(* C12: when findOne, update or remove is called with a well-formed       *)
(* identifier that the store holds no record of, the call fails with      *)
(* status 404 and message `Item with id "<id>" not found` naming that     *)
(* identifier, calls neither save nor remove, and leaves the store as it  *)
(* was; a call with a malformed identifier fails with 400, never 404,     *)
(* whatever the store holds.                                              *)
C12_NotFound ==
    [][\A p \in Clients :
          (req[p].pc = "idle" /\ req'[p].pc # "idle" /\ req'[p].op \in ById) =>
              /\ (WellFormedId(req'[p].id)
                     /\ ~\E x \in store : x.id = Some(req'[p].id)) =>
                    /\ FailedWith(req'[p], 404,
                                  "Item with id \"" \o req'[p].id \o "\" not found")
                    /\ req'[p].calls \cap {"save", "remove"} = {}
                    /\ store' = store
              /\ ~WellFormedId(req'[p].id) =>
                    /\ Failed(req'[p])
                    /\ StatusOf(req'[p]) = 400
                    /\ store' = store]_vars

\* a remove of a well-formed identifier the store does not hold has failed
\* with 404 and the record the store holds is still there
C12_Witness ==
    \E r \in Calls :
        /\ r.op = "remove"
        /\ r.id = IdOf(2)
        /\ FailedWith(r, 404, "Item with id \"00000000-0000-4000-8000-000000000002\" not found")
        /\ r.calls = {"findOne"}
        /\ store = {SeedRecord}

---------------------------------------------------------------------------
(* C13 *)

\* a name that is absent, no string, empty or white space only
NameRefused(n) == n = Undefined \/ ~IsString(n) \/ IsBlank(n.v)

\* the step of client p is a whole call of create
CreateStep(p) == req[p].pc = "idle" /\ req'[p].op = "create"

\* create has failed for the name, with the message given, and nothing
\* was persisted; or the name was accepted and, when the call succeeded,
\* stored without the white space around it
NameChecked(p, message) ==
    LET r == req'[p]
    IN  IF NameRefused(r.dto.name)
        THEN /\ FailedWith(r, 400, message)
             /\ r.calls \cap {"create", "save"} = {}
             /\ store' = store
        ELSE /\ ~(Failed(r) /\ MessageSent(r) = message)
             /\ Succeeded(r) =>
                   /\ r.value[1].name = Str(Unpadded(r.dto.name.v))
                   /\ r.value[1] \in store'

(* C13, as claimed: create rejects every input whose name is absent, not  *)
(* a string, empty or white space only with status 400 and message "name  *)
(* is required and must be a non-empty string.", calling neither the      *)
(* repository's create nor its save and persisting nothing; every other   *)
(* name is accepted and stored trimmed.                                   *)
C13_AsClaimed ==
    [][\A p \in Clients :
          CreateStep(p) =>
              NameChecked(p, "name is required and must be a non-empty string.")]_vars

(* C13, but for the text of the message: the same, with the message the   *)
(* code sends, which has no full stop at its end.                         *)
C13_UpToMessageText ==
    [][\A p \in Clients :
          CreateStep(p) =>
              NameChecked(p, "name is required and must be a non-empty string")]_vars

\* a create with a name of white space only has failed with 400 without a
\* call of the repository
C13_Witness ==
    \E r \in Calls :
        /\ r.op = "create"
        /\ r.dto.name = Str("   ")
        /\ Failed(r)
        /\ StatusOf(r) = 400
        /\ r.calls = {}
        /\ store = {}

---------------------------------------------------------------------------
(* Calendar dates, as the properties speak of them *)

Numerals == {"0", "1", "2", "3", "4", "5", "6", "7", "8", "9"}

\* the value of a numeral, and of a string of numerals
NumeralValue(c) == CHOOSE n \in 0..9 : CharAt("0123456789", n + 1) = c

RECURSIVE Decimal(_)
Decimal(s) ==
    IF s = "" THEN 0
    ELSE 10 * Decimal(SubSeq(s, 1, Len(s) - 1)) + NumeralValue(CharAt(s, Len(s)))

LeapYear(y) == y % 400 = 0 \/ (y % 4 = 0 /\ y % 100 # 0)

LastDay(y, m) ==
    CASE m \in {1, 3, 5, 7, 8, 10, 12} -> 31
      [] m \in {4, 6, 9, 11} -> 30
      [] OTHER -> IF LeapYear(y) THEN 29 ELSE 28

\* s is YYYY-MM-DD, zero-padded
DateShaped(s) ==
    /\ Len(s) = 10
    /\ \A i \in 1..10 :
          IF i \in {5, 8} THEN CharAt(s, i) = "-" ELSE CharAt(s, i) \in Numerals

YearOf(s) == Decimal(SubSeq(s, 1, 4))
MonthOf(s) == Decimal(SubSeq(s, 6, 7))
DayOf(s) == Decimal(SubSeq(s, 9, 10))

\* s is a zero-padded YYYY-MM-DD that denotes a day of the calendar
RealDate(s) ==
    /\ DateShaped(s)
    /\ MonthOf(s) \in 1..12
    /\ DayOf(s) >= 1
    /\ DayOf(s) <= LastDay(YearOf(s), MonthOf(s))

\* a dateOfBirth that is a string with more than white space in it
NonBlankDate(v) == IsString(v) /\ ~IsBlank(v.v)

\* the step of client p is the part of update behind its findOne
UpdateStep(p) ==
    req[p].pc = "loaded" /\ req[p].op = "update" /\ req'[p].pc = "done"

\* the call of client p has failed for its date of birth and nothing was
\* created or saved
DateRefused(p) ==
    /\ FailedWith(req'[p], 400,
                  "Invalid date of birth; use ISO date format (YYYY-MM-DD).")
    /\ req'[p].calls \cap {"create", "save"} = {}
    /\ store' = store

---------------------------------------------------------------------------
(* C14: on create (of a name that is accepted) and on update (of a record *)
(* that was found), every dateOfBirth that is not blank and whose trimmed *)
(* text is not the YYYY-MM-DD of a day of the calendar (1989-11-31,       *)
(* 2025-02-30, 31/12/1999, a date-time, ...) is rejected with status 400  *)
(* and message "Invalid date of birth; use ISO date format (YYYY-MM-DD)." *)
(* and no record is created or saved.                                     *)
C14_InvalidDateRejected ==
    [][\A p \in Clients :
          LET dob == req'[p].dto.dateOfBirth
              bad == NonBlankDate(dob) /\ ~RealDate(Unpadded(dob.v))
          IN  /\ (CreateStep(p) /\ ~NameRefused(req'[p].dto.name) /\ bad)
                    => DateRefused(p)
              /\ (UpdateStep(p) /\ bad) => DateRefused(p)]_vars

\* an update of a stored record with dateOfBirth 2025-02-30, a name and a
\* description has failed with the date message and the record is as it was
C14_Witness ==
    \E r \in Calls :
        /\ r.op = "update"
        /\ r.dto.dateOfBirth = Str("2025-02-30")
        /\ r.dto.name = Str("Renamed")
        /\ FailedWith(r, 400, "Invalid date of birth; use ISO date format (YYYY-MM-DD).")
        /\ r.calls = {"findOne"}
        /\ store = {SeedRecord}

---------------------------------------------------------------------------
(* C15 *)

\* the calendar date a zero-padded YYYY-MM-DD denotes
DateOf(s) == [y |-> YearOf(s), m |-> MonthOf(s), d |-> DayOf(s)]

\* the call of client p was not refused and, when the date of birth is a
\* string, stored the date given (None for no date)
DateStored(p, date) ==
    /\ Succeeded(req'[p])
    /\ req'[p].value[1].dateOfBirth = date
    /\ req'[p].value[1] \in store'

\* sex, phoneNumber and address are strings where the input has them
TextFields(dto) ==
    \A v \in {dto.sex, dto.phoneNumber, dto.address} : v = Undefined \/ IsString(v)

\* create (of a name that is accepted) and update (of a record that was
\* found), with text for sex, phoneNumber and address, accept every date
\* of birth that is blank, absent, or the YYYY-MM-DD of a day of the
\* calendar in or after the year given
DatesAccepted(firstYear) ==
    \A p \in Clients :
        LET dob  == req'[p].dto.dateOfBirth
            text == Unpadded(dob.v)
        IN  (/\ (CreateStep(p) /\ ~NameRefused(req'[p].dto.name)) \/ UpdateStep(p)
             /\ TextFields(req'[p].dto)) =>
               /\ (NonBlankDate(dob) /\ RealDate(text) /\ YearOf(text) >= firstYear)
                     => DateStored(p, Some(DateOf(text)))
               /\ (IsString(dob) /\ IsBlank(dob.v)) => DateStored(p, None)
               /\ (dob = Undefined /\ CreateStep(p)) => DateStored(p, None)
               /\ (dob = Undefined /\ UpdateStep(p)) =>
                     DateStored(p, req[p].item[1].dateOfBirth)

(* C15, as claimed: for every string that, trimmed, is a zero-padded      *)
(* YYYY-MM-DD with a four-digit year, years below 1000 included, that     *)
(* denotes a day of the calendar under the leap-year rules, create and    *)
(* update accept it and store exactly that date; a blank or absent date   *)
(* of birth is accepted and stored as no date (an update without the key  *)
(* keeps the date the record has).                                        *)
C15_AsClaimed == [][DatesAccepted(0)]_vars

(* C15, from the year 1000 on: the same for the dates whose year has no   *)
(* leading zero.                                                          *)
C15_FromYear1000 == [][DatesAccepted(1000)]_vars

\* a create with dateOfBirth 0999-12-31, a day of the calendar, has failed
\* with 400 and nothing was stored
C15_Witness ==
    \E r \in Calls :
        /\ r.op = "create"
        /\ r.dto.dateOfBirth = Str("0999-12-31")
        /\ RealDate(r.dto.dateOfBirth.v)
        /\ FailedWith(r, 400, "Invalid date of birth; use ISO date format (YYYY-MM-DD).")
        /\ store = {}

---------------------------------------------------------------------------
(* C16, as claimed: after any sequence of create, update and remove,      *)
(* every record the store holds has a name that is a string and is not    *)
(* empty once trimmed; an update that supplies an empty or white space    *)
(* only name does not persist that name.                                  *)
C16_AsClaimed ==
    \A x \in store : IsString(x.name) /\ ~IsBlank(x.name.v)

\* an update with a name of white space only has succeeded and the store
\* holds the record under that name
C16_Witness ==
    \E r \in Calls :
        /\ r.op = "update"
        /\ r.dto.name = Str("   ")
        /\ Succeeded(r)
        /\ r.value[1].name = Str("   ")
        /\ r.value[1] \in store

---------------------------------------------------------------------------
(* C17, as claimed: once a remove of an identifier has returned its       *)
(* record, the store never again holds a record of that identifier and    *)
(* every findOne of it begun afterwards fails with 404, in every          *)
(* interleaving of the clients' calls, also when an update of the same    *)
(* identifier loaded the record before the remove and saves after it.     *)
C17_AsClaimed ==
    \A id \in removed :
        /\ ~\E x \in store : x.id = Some(id)
        /\ \A r \in Calls :
              (r.op = "findOne" /\ r.id = id /\ r.gone /\ Ended(r)) =>
                  /\ Failed(r)
                  /\ StatusOf(r) = 404

\* one client's remove of a record has returned it, another client's
\* update of the same record has saved after that, and the store holds the
\* record again
C17_Witness ==
    \E p, q \in Clients :
        /\ req[p].op = "remove"
        /\ Succeeded(req[p])
        /\ req[q].op = "update"
        /\ req[q].id = req[p].id
        /\ Succeeded(req[q])
        /\ req[p].id \in removed
        /\ \E x \in store : x.id = Some(req[p].id)

---------------------------------------------------------------------------
(* C18: with one client deleting the same persisted record twice, one     *)
(* call after the other: the first remove succeeds (status 200), returns  *)
(* the record as the store held it and takes it out of the store; every   *)
(* findOne and every remove of that identifier begun afterwards fails     *)
(* with 404.                                                              *)
C18_DeleteTwice ==
    [][\A p \in {1} :
          /\ (req[p].pc = "loaded" /\ req[p].op = "remove" /\ req'[p].pc = "done") =>
                /\ Succeeded(req'[p])
                /\ SuccessStatus("DELETE") = 200
                /\ req'[p].value[1] \in store
                /\ req'[p].value[1].id = Some(req'[p].id)
                /\ store' = store \ {req'[p].value[1]}
                /\ ~\E x \in store' : x.id = Some(req'[p].id)
          /\ (req[p].pc = "idle" /\ req'[p].op \in {"findOne", "remove"}
                 /\ req'[p].id \in removed) =>
                /\ FailedWith(req'[p], 404,
                              "Item with id \"" \o req'[p].id \o "\" not found")
                /\ store' = store]_vars

\* the second remove of a record has failed with 404: the first one had
\* returned it and emptied the store
C18_Witness ==
    \E r \in Calls :
        /\ r.op = "remove"
        /\ r.id = IdOf(1)
        /\ r.gone
        /\ FailedWith(r, 404, "Item with id \"00000000-0000-4000-8000-000000000001\" not found")
        /\ removed = {IdOf(1)}
        /\ store = {}

---------------------------------------------------------------------------
(* C19: a successful update changes, of name, description, dateOfBirth,   *)
(* sex, phoneNumber and address, only those its input has, and leaves the *)
(* others as loaded; the identifier and created-at of the record stay as  *)
(* loaded, also when the input has id or createdAt keys; no other record  *)
(* of the store is changed.                                               *)
C19_UpdateFrame ==
    [][\A p \in Clients :
          (UpdateStep(p) /\ Succeeded(req'[p])) =>
              LET old == req[p].item[1]
                  new == req'[p].value[1]
                  dto == req[p].dto
              IN  /\ new.name = IF dto.name = Undefined THEN old.name ELSE dto.name
                  /\ new.description =
                        IF dto.description = Undefined THEN old.description
                        ELSE dto.description
                  /\ dto.dateOfBirth = Undefined => new.dateOfBirth = old.dateOfBirth
                  /\ new.sex = IF dto.sex = Undefined THEN old.sex
                               ELSE Str(Unpadded(dto.sex.v))
                  /\ new.phoneNumber = IF dto.phoneNumber = Undefined THEN old.phoneNumber
                                       ELSE Str(Unpadded(dto.phoneNumber.v))
                  /\ new.address = IF dto.address = Undefined THEN old.address
                                   ELSE Str(Unpadded(dto.address.v))
                  /\ new.id = old.id
                  /\ new.createdAt = old.createdAt
                  /\ new \in store'
                  /\ \A x \in store : x.id # old.id => x \in store'
                  /\ \A x \in store' : x.id # old.id => x \in store]_vars

\* an update whose input has a name and id and createdAt keys has
\* succeeded on a store of two records: the record has the new name and
\* its own identifier and created-at, the other record is as it was
C19_Witness ==
    \E r \in Calls :
        /\ r.op = "update"
        /\ r.id = IdOf(1)
        /\ r.dto.id = Str(IdOf(2))
        /\ r.dto.createdAt # Undefined
        /\ Succeeded(r)
        /\ r.value[1].name = Str("Renamed")
        /\ r.value[1].id = Some(IdOf(1))
        /\ r.value[1].createdAt = Some(1)
        /\ r.value[1].sex = Str("F")
        /\ Cardinality(store) = 2
        /\ \E x \in store : x.id = Some(IdOf(2)) /\ x.updatedAt = x.createdAt

---------------------------------------------------------------------------
(* C20: a successful create persists exactly one new record and returns   *)
(* it as saved: name is the trimmed input name, description the input     *)
(* description or empty, sex, phoneNumber and address the trimmed inputs  *)
(* or empty, dateOfBirth the date given or none; identifier and time      *)
(* stamps are the ones the store assigns, never the input's id or         *)
(* createdAt.                                                             *)
C20_CreatePersistsOne ==
    [][\A p \in Clients :
          (CreateStep(p) /\ Succeeded(req'[p])) =>
              LET new == req'[p].value[1]
                  dto == req'[p].dto
                  TrimmedOrEmpty(v) == IF v \in {Undefined, Null} THEN Str("")
                                       ELSE Str(Unpadded(v.v))
              IN  /\ new \notin store
                  /\ store' = store \cup {new}
                  /\ new.name = Str(Unpadded(dto.name.v))
                  /\ new.description =
                        IF dto.description \in {Undefined, Null} THEN Str("")
                        ELSE dto.description
                  /\ new.sex = TrimmedOrEmpty(dto.sex)
                  /\ new.phoneNumber = TrimmedOrEmpty(dto.phoneNumber)
                  /\ new.address = TrimmedOrEmpty(dto.address)
                  /\ new.dateOfBirth =
                        IF NonBlankDate(dto.dateOfBirth)
                        THEN Some(DateOf(Unpadded(dto.dateOfBirth.v)))
                        ELSE None
                  /\ new.id = Some(IdOf(issued + 1))
                  /\ ~\E x \in store : x.id = new.id
                  /\ dto.id # Undefined => new.id # Some(dto.id.v)
                  /\ new.createdAt = Some(clock + 1)
                  /\ new.updatedAt = new.createdAt
                  /\ \A x \in store : x.createdAt[1] < new.createdAt[1]]_vars

\* a create whose input has every key, and id and createdAt besides, has
\* succeeded on a store of one record: the store holds two, the new one
\* under the identifier the store assigned
C20_Witness ==
    \E r \in Calls :
        /\ r.op = "create"
        /\ r.dto = FullDto
        /\ Succeeded(r)
        /\ r.value[1].id = Some(IdOf(2))
        /\ r.value[1].name = Str("Trimmed Name")
        /\ r.value[1].dateOfBirth = Some([y |-> 1990, m |-> 5, d |-> 15])
        /\ r.calls = {"create", "save"}
        /\ store = {SeedRecord, r.value[1]}

---------------------------------------------------------------------------
(* C21: when two updates of the same record interleave at their           *)
(* repository calls (each loads the record, assigns its fields, saves),   *)
(* every save succeeds, and after each save the store holds exactly one   *)
(* record of that identifier, the one that save wrote and returned: the   *)
(* save that runs last wins.  No other record is touched, and the call of *)
(* the other client is not disturbed.                                     *)
C21_LastWriteWins ==
    [][\A p, q \in Clients :
          (/\ p # q
           /\ UpdateStep(p)
           /\ req[q].op = "update"
           /\ req[q].id = req[p].id
           /\ req[q].pc \in {"loaded", "done"}) =>
              /\ Succeeded(req'[p])
              /\ "save" \in req'[p].calls
              /\ {x \in store' : x.id = Some(req[p].id)} = {req'[p].value[1]}
              /\ {x \in store' : x.id # Some(req[p].id)}
                    = {x \in store : x.id # Some(req[p].id)}
              /\ req'[q] = req[q]
              /\ Ended(req[q]) /\ Succeeded(req[q]) =>
                    req'[p].value[1].updatedAt[1] > req[q].value[1].updatedAt[1]]_vars

\* both clients loaded the seeded record before either saved; the first
\* saved a new name, the second a new description on the record as it had
\* loaded it: the store holds the second's record alone, without the name
\* the first had written
C21_Witness ==
    /\ req[1].op = "update" /\ req[2].op = "update"
    /\ req[1].id = IdOf(1) /\ req[2].id = IdOf(1)
    /\ Succeeded(req[1]) /\ Succeeded(req[2])
    /\ req[1].item = Some(SeedRecord) /\ req[2].item = Some(SeedRecord)
    /\ req[1].value[1].name = Str("Renamed")
    /\ req[2].value[1].description = Str("changed")
    /\ req[2].value[1].name = SeedRecord.name
    /\ req[2].value[1].updatedAt[1] > req[1].value[1].updatedAt[1]
    /\ store = {req[2].value[1]}

---------------------------------------------------------------------------
(* C22 *)

\* a status and a body make an error response of the one shape
ErrorShaped(status, body) ==
    /\ DOMAIN body = {"statusCode", "error", "message"}
    /\ body.statusCode = status
    /\ status \in {400, 404, 500}

(* C22: every response that is not a success, whether the middleware      *)
(* wrote it or the filter wrote it for an exception of the body parser,   *)
(* the router, the guard or the service, has a body of exactly the keys   *)
(* statusCode, error and message, its statusCode is the status sent, and  *)
(* the status is 400, 404 or 500; so has the response the filter gives to *)
(* the exception the guard throws for a request the validator rejects.    *)
C22_ErrorShape ==
    /\ (res.sends > 0 /\ res.status \notin {200, 201}) =>
          ErrorShaped(res.status, res.body)
    /\ ValidationError # None =>
          LET thrown == BadRequestException(ValidationError[1].message)
          IN  ErrorShaped(CatchResponse(thrown).status, CatchResponse(thrown).body)

\* a body over the parser's size limit, which carries status 413, was
\* answered by the filter with the 500 response of the one shape
C22_Witness ==
    /\ Answered
    /\ caught[1].status = Some(413)
    /\ res.status = 500
    /\ res.body.statusCode = 500
    /\ res.body.error = "Internal Server Error"
    /\ res.sends = 1

---------------------------------------------------------------------------
(* C23: the validator reads the method and the Content-Type header and    *)
(* nothing else, and no stage changes them: the request is the same at    *)
(* every stage and neither the middleware nor the guard touches the       *)
(* service's state.  The middleware rejects exactly the requests the      *)
(* validator has an error for, with the status and message the guard's    *)
(* exception would be answered with; and the guard, run on a request the  *)
(* middleware has passed, accepts it.                                     *)
C23_SameDecision ==
    [][/\ method' = method
       /\ contentType' = contentType
       /\ pc \in {"middleware", "guard"} => UNCHANGED serviceVars
       /\ pc = "middleware" =>
             /\ (pc' = "done") = (ValidationError # None)
             /\ (pc' = "bodyParser") = (ValidationError = None)
             /\ ValidationError # None =>
                   LET thrown   == BadRequestException(ValidationError[1].message)
                       answered == CatchResponse(thrown)
                   IN  /\ res'.status = answered.status
                       /\ res'.body.message = answered.body.message
                       /\ res'.body = answered.body
       /\ pc = "guard" =>
             /\ ValidationError = None
             /\ canActivate' = "true"
             /\ exception' = None
             /\ pc' = "handler"]_vars

\* a PATCH with a JSON content type and a supported charset has passed the
\* middleware and then the guard, the request being what it was
C23_Witness ==
    /\ method = "PATCH"
    /\ contentType = [kind |-> "string", val |-> <<"application/json; charset=utf-8">>]
    /\ nextCalls = <<<<>>>>
    /\ "guard" \in invoked
    /\ canActivate = "true"
    /\ pc = "handler"

---------------------------------------------------------------------------
(* C24: findAll returns the records the store holds, each once and none   *)
(* that the store does not hold (so none that was removed from it), in    *)
(* the order of their created-at, oldest first; findAll and findOne leave *)
(* the store as it was, whatever they return.                             *)
C24_ReadAll ==
    [][\A p \in Clients :
          /\ (req[p].pc = "idle" /\ req'[p].op = "findAll") =>
                LET list == req'[p].value[1]
                IN  /\ Succeeded(req'[p])
                    /\ {list[i] : i \in 1..Len(list)} = store
                    /\ Len(list) = Cardinality(store)
                    /\ \A i, j \in 1..Len(list) :
                          i < j => list[i].createdAt[1] <= list[j].createdAt[1]
                    /\ store' = store
                    /\ clock' = clock
                    /\ issued' = issued
          /\ (req[p].pc = "idle" /\ req'[p].op = "findOne") =>
                /\ store' = store
                /\ clock' = clock
                /\ issued' = issued
                /\ Succeeded(req'[p]) =>
                      /\ req'[p].value[1] \in store
                      /\ req'[p].value[1].id = Some(req'[p].id)]_vars

\* findAll on a store of two records has returned the seeded record and
\* then the one created after it, and the store is as it was
C24_Witness ==
    \E r \in Calls :
        /\ r.op = "findAll"
        /\ Succeeded(r)
        /\ Len(r.value[1]) = 2
        /\ r.value[1][1] = SeedRecord
        /\ r.value[1][2].id = Some(IdOf(2))
        /\ r.value[1][2].createdAt[1] > SeedRecord.createdAt[1]
        /\ store = {r.value[1][1], r.value[1][2]}

---------------------------------------------------------------------------
(* C25: an update whose date of birth is refused calls no save and leaves *)
(* the store, and in it the record as it was loaded, exactly as it was,   *)
(* also when its input has a name and a description, which are assigned   *)
(* to the loaded item before the date is looked at: the assignments stay  *)
(* with the item the call holds and do not reach the store.               *)
C25_RefusedUpdateSavesNothing ==
    [][\A p \in Clients :
          (UpdateStep(p) /\ FailedWith(req'[p], 400,
                  "Invalid date of birth; use ISO date format (YYYY-MM-DD).")) =>
              LET dto    == req[p].dto
                  loaded == req[p].item[1]
                  held   == req'[p].item[1]
              IN  /\ NonBlankDate(dto.dateOfBirth)
                  /\ ~RealDate(Unpadded(dto.dateOfBirth.v))
                        \/ YearOf(Unpadded(dto.dateOfBirth.v)) < 1000
                  /\ "save" \notin req'[p].calls
                  /\ store' = store
                  /\ clock' = clock
                  /\ loaded \in store => loaded \in store'
                  /\ \A x \in store' : x.id = loaded.id => x.updatedAt = loaded.updatedAt
                  /\ dto.name # Undefined => held.name = dto.name
                  /\ dto.description # Undefined => held.description = dto.description]_vars

\* an update with a new name, a new description and the date 2025-02-30
\* has failed: the item the call holds has the new name and description,
\* the store holds the record under its old ones
C25_Witness ==
    \E r \in Calls :
        /\ r.op = "update"
        /\ r.dto.dateOfBirth = Str("2025-02-30")
        /\ Failed(r)
        /\ "save" \notin r.calls
        /\ r.item # None
        /\ r.item[1].name = Str("Renamed")
        /\ r.item[1].description = Str("changed")
        /\ store = {SeedRecord}
        /\ SeedRecord.name # Str("Renamed")
        /\ SeedRecord.description # Str("changed")

---------------------------------------------------------------------------
(* C26 *)

\* the text after the "=" of the first charset parameter, as it stands
CharsetText(text) ==
    LET segs == Split(text, ";")
        i    == CHOOSE k \in CharsetSegments(text) :
                    \A j \in CharsetSegments(text) : k <= j
        eq   == LeadingBlanks(segs[i]) + 8
    IN  SubSeq(segs[i], eq + 1, Len(segs[i]))

\* s without a quote at its beginning and without a quote at its end
Unquoted(s) ==
    LET a == IF Len(s) >= 1 /\ CharAt(s, 1) \in Quotes
             THEN SubSeq(s, 2, Len(s)) ELSE s
    IN  IF Len(a) >= 1 /\ CharAt(a, Len(a)) \in Quotes
        THEN SubSeq(a, 1, Len(a) - 1) ELSE a

\* a charset value that passes: empty, or utf-8 or utf8 in any letter case
Passes(v) == v = "" \/ IsUtf8(v)

\* the request has a body-bearing method, the type part application/json
\* and a charset parameter
HasCharset ==
    /\ method \in BODY_METHODS
    /\ HasJsonType(contentType)
    /\ CharsetSegments(HeaderText(contentType)[1]) # {}

(* C26, as claimed: the charset value is what is left of the parameter's  *)
(* text once white space outside the quotes, the quotes, and white space  *)
(* inside the quotes are dropped; the request passes iff that value is    *)
(* empty or utf-8 or utf8 in any letter case, so charset=" utf-8 " passes *)
(* and a value of quotes and white space only passes; and stripping the   *)
(* quotes before trimming or trimming before stripping decides the same.  *)
C26_AsClaimed ==
    HasCharset =>
        LET raw == CharsetText(HeaderText(contentType)[1])
        IN  /\ (ValidationError = None)
                  = Passes(Unpadded(Unquoted(Unpadded(raw))))
            /\ Passes(Unpadded(Unquoted(raw))) = Passes(Unquoted(Unpadded(raw)))

(* C26, as the code has it: the text is trimmed, then stripped of one     *)
(* quote at each end, and not trimmed again; the request passes iff what  *)
(* is left is empty or utf-8 or utf8 in any letter case.                  *)
C26_TrimThenStrip ==
    HasCharset =>
        LET raw == CharsetText(HeaderText(contentType)[1])
        IN  (ValidationError = None) = Passes(Unquoted(Unpadded(raw)))

\* the guard rejected a POST with application/json;charset=" utf-8 " with
\* the charset error's message
C26_Witness ==
    /\ method = "POST"
    /\ contentType = [kind |-> "string",
                      val |-> <<"application/json;charset=\" utf-8 \"">>]
    /\ IsUtf8(Unpadded(Unquoted(CharsetText(HeaderText(contentType)[1]))))
    /\ canActivate = "throw"
    /\ exception = Some(BadRequestException(CHARSET_ERROR_BODY.message))

---------------------------------------------------------------------------
(* C27, as claimed: of two removes of the same identifier by different    *)
(* clients, however their repository calls interleave, at most one        *)
(* returns the record; when both have ended, the other has failed with    *)
(* 404.                                                                   *)
C27_AsClaimed ==
    \A p, q \in Clients :
        (/\ p # q
         /\ req[p].op = "remove" /\ req[q].op = "remove"
         /\ req[p].id = req[q].id
         /\ Ended(req[p]) /\ Ended(req[q])
         /\ Succeeded(req[p])) =>
            /\ Failed(req[q])
            /\ StatusOf(req[q]) = 404

\* both clients found the seeded record before either removed it, and both
\* removes have returned it
C27_Witness ==
    /\ req[1].op = "remove" /\ req[2].op = "remove"
    /\ req[1].id = IdOf(1) /\ req[2].id = IdOf(1)
    /\ Succeeded(req[1]) /\ Succeeded(req[2])
    /\ req[1].value = Some(SeedRecord)
    /\ req[2].value = Some(SeedRecord)
    /\ req[1].calls = {"findOne", "remove"}
    /\ req[2].calls = {"findOne", "remove"}
    /\ store = {}

---------------------------------------------------------------------------
(* C28 *)

\* the place of a stage in the order main.ts registers them in
StageRank ==
    [s \in {"middleware", "bodyParser", "router", "guard", "handler", "filter", "done"} |->
        CASE s = "middleware" -> 1 [] s = "bodyParser" -> 2 [] s = "router" -> 3
          [] s = "guard" -> 4 [] s = "handler" -> 5 [] s = "filter" -> 6
          [] OTHER -> 7]

(* C28: every request is answered, and answered once: it ends with one    *)
(* response sent; no response is ever sent after the first, so nothing    *)
(* follows the 400 of the middleware and the filter answers an exception  *)
(* once; and no stage runs again once the request has left it.            *)
C28_OneResponse ==
    /\ <>(pc = "done" /\ res.sends = 1)
    /\ [](res.sends <= 1)
    /\ [][/\ res.sends = 1 => res' = res
          /\ StageRank[pc'] > StageRank[pc]
          /\ pc = "filter" => (pc' = "done" /\ res'.sends = 1)
          /\ res'.sends = 1 => pc' = "done"]_vars

\* a POST that passed the middleware and the guard met a failure of the
\* repository in the handler; the filter answered it once, with 500
C28_Witness ==
    /\ method = "POST"
    /\ nextCalls = <<<<>>>>
    /\ invoked = {"bodyParser", "guard", "handler", "service", "store"}
    /\ Answered
    /\ caught = RepositoryFailure.threw
    /\ res.sends = 1
    /\ res.status = 500

---------------------------------------------------------------------------
(* C29, as claimed: whatever is thrown (null, undefined, a string, an     *)
(* object without a message or with a message that is no string           *)
(* included), catch returns and sends exactly one response, which is the  *)
(* encoding answer, the JSON answer, the exception's own status and body  *)
(* when it is a structured HTTP exception, or else the 500 fallback.      *)
C29_AsClaimed ==
    Answered =>
        LET e == caught[1]
        IN  /\ res.sends = 1
            /\ IF EncodingRule(e) THEN res = EncodingResponse
               ELSE IF JsonRule(e) THEN res = JsonResponse
               ELSE IF IsStructuredHttp(e)
               THEN res.status = e.status[1] /\ res.body = e.response
               ELSE res = FallbackResponse

(* C29, for the values that have properties: the same for every thrown    *)
(* value other than null and undefined.                                   *)
C29_ExceptNullAndUndefined ==
    (Answered /\ caught[1].class \notin {"null", "undefined"}) =>
        LET e == caught[1]
        IN  /\ res.sends = 1
            /\ IF EncodingRule(e) THEN res = EncodingResponse
               ELSE IF JsonRule(e) THEN res = JsonResponse
               ELSE IF IsStructuredHttp(e)
               THEN res.status = e.status[1] /\ res.body = e.response
               ELSE res = FallbackResponse

\* null was thrown, catch raised on it and the filter has sent nothing
C29_Witness ==
    /\ Answered
    /\ caught[1].class = "null"
    /\ ~EncodingRule(caught[1])
    /\ ~JsonRule(caught[1])
    /\ ~IsStructuredHttp(caught[1])
    /\ res = FreshResponse
    /\ res.sends = 0

---------------------------------------------------------------------------
(* C30, as claimed: whatever the JSON types of description, sex,          *)
(* phoneNumber and address in the body (string, number, null, object), a  *)
(* create or an update ends in success or in a failure of status 400 or   *)
(* 404; the repository never failing, no call ends in 500.                *)
C30_AsClaimed ==
    \A r \in Calls :
        (r.op \in {"create", "update"} /\ Failed(r)) => StatusOf(r) \in {400, 404}

(* C30, for text: the same for the bodies whose sex, phoneNumber and      *)
(* address are strings where present (or null, on create); the type of    *)
(* description does not matter.                                           *)
C30_TextFields ==
    \A r \in Calls :
        (/\ r.op \in {"create", "update"}
         /\ Failed(r)
         /\ \A v \in {r.dto.sex, r.dto.phoneNumber, r.dto.address} :
               \/ v = Undefined
               \/ IsString(v)
               \/ (v = Null /\ r.op = "create")) =>
            StatusOf(r) \in {400, 404}

\* a create with a valid name and the number 42 for sex has failed with
\* 500 without a call of the repository
C30_Witness ==
    \E r \in Calls :
        /\ r.op = "create"
        /\ r.dto.name = Str("New")
        /\ r.dto.sex = Num(42)
        /\ Failed(r)
        /\ StatusOf(r) = 500
        /\ r.calls = {}
        /\ store = {}

==========================================================================
